---- MODULE Spec2Model ----
(***************************************************************************)
(* Model of the automated-testing-framework result pipeline:               *)
(*   - TestRunner (test-runner.js): runTests, runE2ETests,                  *)
(*     runPerformanceTests, runAPITests, saveResults;                       *)
(*   - ReportGenerator (report-generator.js): generateReports and the       *)
(*     html / json renderers.                                               *)
(* JavaScript strings that end up in file names or JSON text are sequences  *)
(* of character codes, so that sorting, prefix tests and (de)serialisation  *)
(* are computed character by character as the code does.                    *)
(***************************************************************************)
EXTENDS Integers, Sequences, FiniteSets, TLC

VARIABLES
    pc,          \* position of the runTests call
    testType,    \* second argument of runTests
    reports,     \* per stage, the raw report its runner subprocess has produced
    exec,        \* per stage, how its runner subprocess ended (NotRun before)
    results,     \* the `results` object runTests accumulates
    e2eResults,  \* value returned by runE2ETests (NotRun before)
    perfResults, \* value returned by runPerformanceTests (NotRun before)
    apiResults,  \* value returned by runAPITests (NotRun before)
    clock,       \* the system clock, what `new Date()` reads
    dir,         \* the results directory: file name -> file text
    saved,       \* the saveResults calls so far, in call order
    generated,   \* outcome of the last generateReports / renderer call
    repo,        \* the local repository clone analyzeRisks is pointed at
    risks,       \* outcome of the analyzeRisks call (NotAnalyzed before)
    contents,    \* the root entries handed to analyzeStructure
    structure,   \* value returned by analyzeStructure (NotAnalyzed before)
    languages,   \* the language -> byte count mapping of the repository
    frameworks,  \* value returned by detectFrameworks (NotAnalyzed before)
    testCases,   \* value returned by generateTests (NotAnalyzed before)
    repoUrl,     \* the argument of parseRepoUrl
    ownerRepo,   \* outcome of parseRepoUrl (NotAnalyzed before)
    cli          \* the command line invocation under way (NotAnalyzed before)

runnerVars ==
    <<pc, testType, reports, exec, results, e2eResults, perfResults, apiResults>>
storeVars == <<clock, dir, saved, generated>>
analyzerVars == <<repo, risks, contents, structure>>
pipelineVars == <<languages, frameworks, testCases, repoUrl, ownerRepo, cli>>
vars == <<runnerVars, storeVars, analyzerVars, pipelineVars>>

(***************************************************************************)
(* Bounds of the model.                                                     *)
(***************************************************************************)
MaxSuites == 2      \* suites over all runner reports of one run
MaxSpecs == 2       \* specs over all runner reports of one run
MaxAttempts == 2    \* attempts (retries) over all runner reports of one run
MaxSaves == 2       \* saveResults calls into the results directory
MaxRows == 2        \* specs of the run rendered in the runs of SpecRender
MaxRootEntries == 2 \* entries of the repository root analyzeRisks is pointed at
MaxItems == 3       \* items of the root listing handed to analyzeStructure
MaxTotal == 10      \* summary.total of the summaries handed to the HTML renderer

(***************************************************************************)
(* Values.                                                                  *)
(***************************************************************************)
\* JS null in a string-valued field: `x || null` never yields the empty
\* string, so the empty sequence is free to stand for null.
Null == <<>>

\* A stage result, or a subprocess outcome, that has not been produced.
NotRun == [kind |-> "none"]

\* One retry attempt as the runner reports it: status, duration in ms and the
\* text of error.message (Null when the attempt carries no error message).
Attempts ==
    { [status |-> "passed",   duration |-> 50,  error |-> Null],
      [status |-> "failed",   duration |-> 100, error |-> <<69, 34, 120, 34>>],
      [status |-> "skipped",  duration |-> 0,   error |-> Null],
      [status |-> "timedOut", duration |-> 100, error |-> <<84, 92, 111>>] }

\* Titles the runner gives to the k-th suite ("A", "B", ...) and spec
\* ("s1", "s2", ...).
SuiteTitle(k) == <<64 + k>>
SpecTitle(k) == <<115, 48 + k>>

\* Wall-clock time of one runner subprocess, Date.now() - startTime.
WallTimes == {1200}

TestTypes == {"all", "e2e", "performance", "api", "unit"}

(***************************************************************************)
(* Date.prototype.toISOString.  An instant is [day, ms]: days since         *)
(* 1970-01-01 and milliseconds of that day (UTC).                           *)
(***************************************************************************)
MsPerDay == 86400000

\* The instant a delay d = [day, ms] after t.
Later(t, d) ==
    [day |-> t.day + d.day + ((t.ms + d.ms) \div MsPerDay),
     ms |-> (t.ms + d.ms) % MsPerDay]

Before(t, u) == t.day < u.day \/ (t.day = u.day /\ t.ms < u.ms)

\* Proleptic Gregorian date of a day number (year, month, day of month).
CivilFromDays(days) ==
    LET z == days + 719468
        era == z \div 146097
        doe == z - era * 146097
        yoe == (doe - doe \div 1460 + doe \div 36524 - doe \div 146096) \div 365
        doy == doe - (365 * yoe + yoe \div 4 - yoe \div 100)
        mp == (5 * doy + 2) \div 153
        m == IF mp < 10 THEN mp + 3 ELSE mp - 9
    IN  [year |-> yoe + era * 400 + (IF m <= 2 THEN 1 ELSE 0),
         month |-> m,
         date |-> doy - (153 * mp + 2) \div 5 + 1]

Digit(n) == 48 + n

\* The decimal digits of n >= 0, without padding.
RECURSIVE Decimal(_)
Decimal(n) == IF n < 10 THEN <<Digit(n)>> ELSE Append(Decimal(n \div 10), Digit(n % 10))

\* The digits of n whatever the width asked for.
Unpadded(n, w) == Decimal(n)

\* n >= 0 in at least w digits, zero-padded on the left.
Pad(n, w) == [i \in 1..(w - Len(Decimal(n))) |-> Digit(0)] \o Decimal(n)

\* YYYY-MM-DDTHH:mm:ss.sssZ (years 0000 to 9999).
ToISOString(t) ==
    LET c == CivilFromDays(t.day)
        h == t.ms \div 3600000
        mi == (t.ms \div 60000) % 60
        sec == (t.ms \div 1000) % 60
        milli == t.ms % 1000
    IN  Pad(c.year, 4) \o <<45>> \o Pad(c.month, 2) \o <<45>> \o Pad(c.date, 2)
        \o <<84>> \o Pad(h, 2) \o <<58>> \o Pad(mi, 2) \o <<58>> \o Pad(sec, 2)
        \o <<46>> \o Pad(milli, 3) \o <<90>>

\* String.prototype.replace(/:/g, '-')
ReplaceColons(str) == [i \in DOMAIN str |-> IF str[i] = 58 THEN 45 ELSE str[i]]

\* Instants the runs start from: 1999-12-31T23:59:59.999Z and
\* 2026-09-09T09:09:09.999Z.
StartInstants == { [day |-> 10956, ms |-> 86399999],
                   [day |-> 20705, ms |-> 32949999] }

\* Time that passes between two calls: nothing, 1 ms (which carries into
\* the seconds, and from the first instant up to the year), 30 days.
Delays == { [day |-> 0, ms |-> 0], [day |-> 0, ms |-> 1], [day |-> 30, ms |-> 0] }

(***************************************************************************)
(* JavaScript values as JSON sees them, JSON.stringify(value, null, 2) and  *)
(* JSON.parse.  Text is a sequence of character codes.                      *)
(***************************************************************************)
JValue(t, n, str, keys, items) ==
    [t |-> t, n |-> n, s |-> str, keys |-> keys, items |-> items]
JNull == JValue("null", 0, <<>>, <<>>, <<>>)
JUndefined == JValue("undefined", 0, <<>>, <<>>, <<>>)
JNum(n) == JValue("num", n, <<>>, <<>>, <<>>)
JStr(str) == JValue("str", 0, str, <<>>, <<>>)
JArr(items) == JValue("arr", 0, <<>>, <<>>, items)
JObj(keys, items) == JValue("obj", 0, <<>>, keys, items)

\* object[key]
Get(obj, key) ==
    IF obj.t = "obj" /\ \E k \in DOMAIN obj.keys : obj.keys[k] = key
    THEN obj.items[CHOOSE k \in DOMAIN obj.keys : obj.keys[k] = key]
    ELSE JUndefined

\* The characters of a string literal's body: quote, backslash and newline
\* are escaped.
RECURSIVE Escape(_)
Escape(str) ==
    IF str = <<>> THEN <<>>
    ELSE (CASE Head(str) = 34 -> <<92, 34>>
            [] Head(str) = 92 -> <<92, 92>>
            [] Head(str) = 10 -> <<92, 110>>
            [] OTHER -> <<Head(str)>>) \o Escape(Tail(str))

Quote(str) == <<34>> \o Escape(str) \o <<34>>

Spaces(n) == [i \in 1..n |-> 32]
NewLine(ind) == <<10>> \o Spaces(ind)

RECURSIVE Stringify(_, _)
RECURSIVE StringifyFrom(_, _, _)

\* The members of array or object v from the k-th on, one per line.
StringifyFrom(v, ind, k) ==
    (IF v.t = "obj" THEN Quote(v.keys[k]) \o <<58, 32>> ELSE <<>>)
    \o Stringify(v.items[k], ind)
    \o (IF k = Len(v.items) THEN <<>>
        ELSE <<44>> \o NewLine(ind) \o StringifyFrom(v, ind, k + 1))

\* JSON.stringify(v, null, 2) at indentation ind.
Stringify(v, ind) ==
    CASE v.t = "num" -> Decimal(v.n)
      [] v.t = "str" -> Quote(v.s)
      [] v.t = "arr" ->
           IF v.items = <<>> THEN <<91, 93>>
           ELSE <<91>> \o NewLine(ind + 2) \o StringifyFrom(v, ind + 2, 1)
                \o NewLine(ind) \o <<93>>
      [] v.t = "obj" ->
           IF v.items = <<>> THEN <<123, 125>>
           ELSE <<123>> \o NewLine(ind + 2) \o StringifyFrom(v, ind + 2, 1)
                \o NewLine(ind) \o <<125>>
      [] OTHER -> <<110, 117, 108, 108>>

JsonStringify(v) == Stringify(v, 0)

ParseFail == [ok |-> FALSE, v |-> JNull, pos |-> 0]
Parsed(v, pos) == [ok |-> TRUE, v |-> v, pos |-> pos]

RECURSIVE SkipWs(_, _)
SkipWs(t, i) ==
    IF i <= Len(t) /\ t[i] \in {32, 10, 13, 9} THEN SkipWs(t, i + 1) ELSE i

\* The rest of a string literal whose opening quote precedes position i.
RECURSIVE ScanString(_, _, _)
ScanString(t, i, acc) ==
    IF i > Len(t) \/ t[i] < 32 THEN ParseFail
    ELSE IF t[i] = 34 THEN Parsed(JStr(acc), i + 1)
    ELSE IF t[i] = 92
         THEN IF i + 1 > Len(t) THEN ParseFail
              ELSE IF t[i + 1] \in {34, 92, 47}
                   THEN ScanString(t, i + 2, Append(acc, t[i + 1]))
              ELSE IF t[i + 1] = 110 THEN ScanString(t, i + 2, Append(acc, 10))
              ELSE ParseFail
    ELSE ScanString(t, i + 1, Append(acc, t[i]))

RECURSIVE ScanDigits(_, _, _)
ScanDigits(t, i, n) ==
    IF i <= Len(t) /\ t[i] \in 48..57
    THEN ScanDigits(t, i + 1, 10 * n + (t[i] - 48))
    ELSE Parsed(JNum(n), i)

RECURSIVE ParseValue(_, _)
RECURSIVE ParseItems(_, _, _)
RECURSIVE ParseMembers(_, _, _, _)

\* After an element: a comma and more elements, or the closing bracket at j.
ItemSeparator(t, j, acc) ==
    IF j > Len(t) THEN ParseFail
    ELSE IF t[j] = 44 THEN ParseItems(t, SkipWs(t, j + 1), acc)
    ELSE IF t[j] = 93 THEN Parsed(JArr(acc), j + 1)
    ELSE ParseFail

AfterItem(t, r, acc) ==
    IF ~r.ok THEN ParseFail
    ELSE ItemSeparator(t, SkipWs(t, r.pos), Append(acc, r.v))

\* The elements of an array from position i on; acc holds those before.
ParseItems(t, i, acc) == AfterItem(t, ParseValue(t, i), acc)

\* After a member: a comma and more members, or the closing brace at j.
MemberSeparator(t, j, keys, items) ==
    IF j > Len(t) THEN ParseFail
    ELSE IF t[j] = 44 THEN ParseMembers(t, SkipWs(t, j + 1), keys, items)
    ELSE IF t[j] = 125 THEN Parsed(JObj(keys, items), j + 1)
    ELSE ParseFail

AfterMemberValue(t, r, keys, items) ==
    IF ~r.ok THEN ParseFail
    ELSE MemberSeparator(t, SkipWs(t, r.pos), keys, Append(items, r.v))

\* The colon at c, then the member's value.
MemberColon(t, c, keys, items) ==
    IF c > Len(t) \/ t[c] # 58 THEN ParseFail
    ELSE AfterMemberValue(t, ParseValue(t, SkipWs(t, c + 1)), keys, items)

AfterMemberKey(t, k, keys, items) ==
    IF ~k.ok THEN ParseFail
    ELSE MemberColon(t, SkipWs(t, k.pos), Append(keys, k.v.s), items)

\* The members of an object from position i on.
ParseMembers(t, i, keys, items) ==
    IF i > Len(t) \/ t[i] # 34 THEN ParseFail
    ELSE AfterMemberKey(t, ScanString(t, i + 1, <<>>), keys, items)

\* An array whose first non-blank after the bracket is at j.
ArrayFrom(t, j) ==
    IF j <= Len(t) /\ t[j] = 93 THEN Parsed(JArr(<<>>), j + 1)
    ELSE ParseItems(t, j, <<>>)

\* An object whose first non-blank after the brace is at j.
ObjectFrom(t, j) ==
    IF j <= Len(t) /\ t[j] = 125 THEN Parsed(JObj(<<>>, <<>>), j + 1)
    ELSE ParseMembers(t, j, <<>>, <<>>)

ParseValue(t, i) ==
    IF i > Len(t) THEN ParseFail
    ELSE CASE t[i] = 34 -> ScanString(t, i + 1, <<>>)
           [] t[i] \in 49..57 -> ScanDigits(t, i, 0)
           [] t[i] = 48 ->
                IF i + 1 <= Len(t) /\ t[i + 1] \in 48..57 THEN ParseFail
                ELSE Parsed(JNum(0), i + 1)
           [] t[i] = 110 ->
                IF i + 3 <= Len(t) /\ SubSeq(t, i, i + 3) = <<110, 117, 108, 108>>
                THEN Parsed(JNull, i + 4) ELSE ParseFail
           [] t[i] = 91 -> ArrayFrom(t, SkipWs(t, i + 1))
           [] t[i] = 123 -> ObjectFrom(t, SkipWs(t, i + 1))
           [] OTHER -> ParseFail

\* r when the value it holds is followed by blanks only.
WholeText(t, r) ==
    IF r.ok /\ SkipWs(t, r.pos) = Len(t) + 1 THEN r ELSE ParseFail

\* JSON.parse(t): ok is FALSE where it throws a SyntaxError.
JsonParse(t) == WholeText(t, ParseValue(t, SkipWs(t, 1)))

(***************************************************************************)
(* Array helpers.                                                           *)
(***************************************************************************)
RECURSIVE SumSeq(_)
SumSeq(s) == IF s = <<>> THEN 0 ELSE Head(s) + SumSeq(Tail(s))

RECURSIVE Concat(_)
Concat(ss) == IF ss = <<>> THEN <<>> ELSE Head(ss) \o Concat(Tail(ss))

\* Array.prototype.every / some over the attempts of a spec.
Every(rs, st) == \A i \in DOMAIN rs : rs[i].status = st
Some(rs, st) == \E i \in DOMAIN rs : rs[i].status = st

(***************************************************************************)
(* Result formatting of runE2ETests / runPerformanceTests.                  *)
(***************************************************************************)
\* spec.tests[0].results
AttemptsOf(spec) == spec.results

AllPassed(spec) == Every(AttemptsOf(spec), "passed")
AnyFailed(spec) == Some(AttemptsOf(spec), "failed")
AllSkipped(spec) == Every(AttemptsOf(spec), "skipped")

\* A status taken from the last attempt alone.
SpecStatusOfLastAttempt(spec) ==
    LET rs == AttemptsOf(spec)
    IN  IF rs = <<>> THEN "passed"
        ELSE IF rs[Len(rs)].status = "passed" THEN "passed"
        ELSE IF rs[Len(rs)].status = "failed" THEN "failed"
        ELSE "skipped"

SpecStatus(spec) ==
    IF AllPassed(spec) THEN "passed"
    ELSE IF AnyFailed(spec) THEN "failed"
    ELSE "skipped"

\* A duration taken from the last attempt alone.
SpecDurationOfLastAttempt(spec) ==
    LET rs == AttemptsOf(spec)
    IN  IF rs = <<>> THEN 0 ELSE rs[Len(rs)].duration

SpecDuration(spec) ==
    SumSeq([i \in DOMAIN AttemptsOf(spec) |-> AttemptsOf(spec)[i].duration])

\* results.find(r => r.status === 'failed')?.error?.message || null
SpecError(spec) ==
    LET rs == AttemptsOf(spec)
        failedAt == {i \in DOMAIN rs : rs[i].status = "failed"}
    IN  IF failedAt = {} THEN Null
        ELSE rs[CHOOSE i \in failedAt : \A j \in failedAt : i <= j].error

TestOutcome(suite, spec) ==
    [name |-> spec.title, suite |-> suite.title, status |-> SpecStatus(spec),
     duration |-> SpecDuration(spec), error |-> SpecError(spec)]

SummaryTotal(suites) ==
    SumSeq([i \in DOMAIN suites |-> Len(suites[i].specs)])
\* suite.specs.filter(...).length, summed over the suites by reduce
SummaryPassed(suites) ==
    SumSeq([i \in DOMAIN suites |->
              Cardinality({j \in DOMAIN suites[i].specs :
                             AllPassed(suites[i].specs[j])})])
SummaryFailed(suites) ==
    SumSeq([i \in DOMAIN suites |->
              Cardinality({j \in DOMAIN suites[i].specs :
                             AnyFailed(suites[i].specs[j])})])
SummarySkipped(suites) ==
    SumSeq([i \in DOMAIN suites |->
              Cardinality({j \in DOMAIN suites[i].specs :
                             AllSkipped(suites[i].specs[j])})])

FormattedTests(suites) ==
    Concat([i \in DOMAIN suites |->
              [j \in DOMAIN suites[i].specs |->
                   TestOutcome(suites[i], suites[i].specs[j])]])

FormatResults(suites, duration) ==
    [kind |-> "summary",
     summary |-> [total |-> SummaryTotal(suites),
                  passed |-> SummaryPassed(suites),
                  failed |-> SummaryFailed(suites),
                  skipped |-> SummarySkipped(suites),
                  duration |-> duration],
     tests |-> FormattedTests(suites),
     error |-> "undefined",
     suites |-> <<>>]

\* The object both catch blocks return when nothing can be recovered.
EmptyResults(message) ==
    [kind |-> "summary",
     summary |-> [total |-> 0, passed |-> 0, failed |-> 0, skipped |-> 0,
                  duration |-> 0],
     tests |-> <<>>,
     error |-> message,
     suites |-> <<>>]

\* JSON.parse(error.stdout) returned as it is: the runner's own report
\* object, which has `suites` but neither `summary` nor `tests`.
RawResults(suites) ==
    [kind |-> "raw",
     summary |-> "undefined",
     tests |-> "undefined",
     error |-> "undefined",
     suites |-> suites]

(***************************************************************************)
(* Outcome of the runner subprocess (execPromise).                          *)
(*   exit:   "ok"  the promise resolved with {stdout, stderr}               *)
(*           "fail" the promise rejected with an error carrying stdout      *)
(*   stdout: "json" the text of the runner's report                         *)
(*           "garbage" text that is not JSON                                *)
(*           "none" empty or absent (a resolved promise with empty stdout   *)
(*           fails to parse exactly as garbage does)                        *)
(***************************************************************************)
Outcomes ==
    { [exit |-> "ok",   stdout |-> "json"],
      [exit |-> "ok",   stdout |-> "garbage"],
      [exit |-> "fail", stdout |-> "json"],
      [exit |-> "fail", stdout |-> "garbage"],
      [exit |-> "fail", stdout |-> "none"] }

ErrorMessage(exit) ==
    IF exit = "ok" THEN "Unexpected token" ELSE "Command failed"

\* A catch block that hands back whatever the failed runner left.
RunE2ETestsUnguarded(exit, stdout, suites, wall) ==
    IF exit = "ok" /\ stdout = "json"
    THEN FormatResults(suites, wall)
    ELSE IF exit = "ok" THEN EmptyResults(ErrorMessage(exit))
    ELSE RawResults(suites)

RunE2ETests(exit, stdout, suites, wall) ==
    IF exit = "ok"
    THEN IF stdout = "json"
         THEN FormatResults(suites, wall)
         ELSE EmptyResults(ErrorMessage(exit))
    ELSE IF stdout = "json"
         THEN RawResults(suites)
         ELSE EmptyResults(ErrorMessage(exit))

RunPerformanceTests(exit, stdout, suites, wall) ==
    IF exit = "ok" /\ stdout = "json"
    THEN FormatResults(suites, wall)
    ELSE EmptyResults(ErrorMessage(exit))

APITest(name, duration) ==
    [name |-> name, suite |-> <<65, 80, 73, 32, 84, 101, 115, 116, 115>>,
     status |-> "passed", duration |-> duration, error |-> Null]

RunAPITests ==
    [kind |-> "summary",
     summary |-> [total |-> 3, passed |-> 3, failed |-> 0, skipped |-> 0,
                  duration |-> 1500],
     tests |-> << APITest(<<71, 69, 84, 32, 47, 97, 112, 105, 47, 112, 114,
                            111, 100, 117, 99, 116, 115>>, 500),
                  APITest(<<80, 79, 83, 84, 32, 47, 97, 112, 105, 47, 108,
                            111, 103, 105, 110>>, 520),
                  APITest(<<71, 69, 84, 32, 47, 97, 112, 105, 47, 99, 97,
                            114, 116>>, 480) >>,
     error |-> "undefined",
     suites |-> <<>>]

(***************************************************************************)
(* The RunSummary as the JavaScript object that is serialised.              *)
(***************************************************************************)
StatusText(st) ==
    CASE st = "passed" -> <<112, 97, 115, 115, 101, 100>>
      [] st = "failed" -> <<102, 97, 105, 108, 101, 100>>
      [] st = "skipped" -> <<115, 107, 105, 112, 112, 101, 100>>
      [] OTHER -> <<116, 105, 109, 101, 100, 79, 117, 116>>

Key(k) ==
    CASE k = "summary" -> <<115, 117, 109, 109, 97, 114, 121>>
      [] k = "total" -> <<116, 111, 116, 97, 108>>
      [] k = "passed" -> <<112, 97, 115, 115, 101, 100>>
      [] k = "failed" -> <<102, 97, 105, 108, 101, 100>>
      [] k = "skipped" -> <<115, 107, 105, 112, 112, 101, 100>>
      [] k = "duration" -> <<100, 117, 114, 97, 116, 105, 111, 110>>
      [] k = "tests" -> <<116, 101, 115, 116, 115>>
      [] k = "timestamp" -> <<116, 105, 109, 101, 115, 116, 97, 109, 112>>
      [] k = "name" -> <<110, 97, 109, 101>>
      [] k = "suite" -> <<115, 117, 105, 116, 101>>
      [] k = "status" -> <<115, 116, 97, 116, 117, 115>>
      [] k = "error" -> <<101, 114, 114, 111, 114>>
      [] k = "metadata" -> <<109, 101, 116, 97, 100, 97, 116, 97>>
      [] k = "generated" -> <<103, 101, 110, 101, 114, 97, 116, 101, 100>>
      [] k = "title" -> <<116, 105, 116, 108, 101>>
      [] k = "format" -> <<102, 111, 114, 109, 97, 116>>
      [] OTHER -> <<114, 101, 115, 117, 108, 116, 115>>

SummaryObject(sm) ==
    JObj(<<Key("total"), Key("passed"), Key("failed"), Key("skipped"),
           Key("duration")>>,
         <<JNum(sm.total), JNum(sm.passed), JNum(sm.failed), JNum(sm.skipped),
           JNum(sm.duration)>>)

TestObject(test) ==
    JObj(<<Key("name"), Key("suite"), Key("status"), Key("duration"),
           Key("error")>>,
         <<JStr(test.name), JStr(test.suite), JStr(StatusText(test.status)),
           JNum(test.duration),
           IF test.error = Null THEN JNull ELSE JStr(test.error)>>)

ResultsObject(res) ==
    JObj(<<Key("summary"), Key("tests"), Key("timestamp")>>,
         <<SummaryObject(res.summary),
           JArr([k \in DOMAIN res.tests |-> TestObject(res.tests[k])]),
           JStr(res.timestamp)>>)

(***************************************************************************)
(* File names of the results directory.                                     *)
(***************************************************************************)
ResultPrefix == <<116, 101, 115, 116, 45, 114, 101, 115, 117, 108, 116, 115, 45>>
JsonSuffix == <<46, 106, 115, 111, 110>>

\* String.prototype.startsWith / endsWith
StartsWith(str, pre) ==
    Len(str) >= Len(pre) /\ SubSeq(str, 1, Len(pre)) = pre
EndsWith(str, suf) ==
    Len(str) >= Len(suf) /\ SubSeq(str, Len(str) - Len(suf) + 1, Len(str)) = suf

IsResultFile(file) == StartsWith(file, ResultPrefix) /\ EndsWith(file, JsonSuffix)

\* The order Array.prototype.sort() puts strings in: by code unit, a proper
\* prefix first.
SortsBefore(a, b) ==
    \E k \in 1..(Len(a) + 1) :
      /\ \A j \in 1..(k - 1) : j <= Len(b) /\ a[j] = b[j]
      /\ k <= Len(b)
      /\ k = Len(a) + 1 \/ a[k] < b[k]

RECURSIVE Sort(_)
Sort(names) ==
    IF names = {} THEN <<>>
    ELSE LET first == CHOOSE x \in names :
                        \A y \in names : x = y \/ SortsBefore(x, y)
         IN  <<first>> \o Sort(names \ {first})

Reverse(arr) == [i \in DOMAIN arr |-> arr[Len(arr) + 1 - i]]

\* `test-results-${new Date().toISOString().replace(/:/g, '-')}.json`
ResultFileName(now) ==
    ResultPrefix \o ReplaceColons(ToISOString(now)) \o JsonSuffix

\* fs.writeFile(name, text)
WriteFile(d, name, text) ==
    [f \in DOMAIN d \cup {name} |-> IF f = name THEN text ELSE d[f]]

EmptyDir == [f \in {} |-> <<>>]

\* The instant runTests is called at in the runs of Spec.
RunInstant == [day |-> 20705, ms |-> 32949999]

(***************************************************************************)
(* Report generator: selection of the latest result file and renderers.     *)
(***************************************************************************)
\* files.filter(file => file.startsWith('test-results-') && file.endsWith('.json'))
ResultFiles(files) == {f \in files : IsResultFile(f)}

\* The first name of the sorted list, the reversal left out.
FirstSortedResultFile(resultFiles) == Sort(resultFiles)[1]

\* resultFiles.sort().reverse()[0]
LatestResultFile(resultFiles) == Reverse(Sort(resultFiles))[1]

\* (num / den).toFixed(2) for num >= 0, den > 0: the nearest number of
\* hundredths, the larger one at a tie.
ToFixed2(num, den) ==
    LET n == (200 * num + den) \div (2 * den)
    IN  Decimal(n \div 100) \o <<46>> \o Pad(n % 100, 2)

\* The ratio passed / total rendered without the factor 100.
PassRateAsFraction(summary) ==
    IF Get(summary, Key("total")).n > 0
    THEN ToFixed2(Get(summary, Key("passed")).n, Get(summary, Key("total")).n)
    ELSE <<48, 46, 48, 48>>

\* results.summary.total > 0 ? (passed / total * 100).toFixed(2) : '0.00'
PassRate(summary) ==
    IF Get(summary, Key("total")).n > 0
    THEN ToFixed2(Get(summary, Key("passed")).n * 100, Get(summary, Key("total")).n)
    ELSE <<48, 46, 48, 48>>

\* String.prototype.toUpperCase
ToUpperCase(str) ==
    [i \in DOMAIN str |-> IF str[i] \in 97..122 THEN str[i] - 32 ELSE str[i]]

\* A JavaScript value used as a condition.
Truthy(v) ==
    \/ v.t \in {"arr", "obj"}
    \/ v.t = "num" /\ v.n # 0
    \/ v.t = "str" /\ v.s # <<>>

\* The table rows one test contributes: its own row, then the error block
\* when test.error is truthy.
TestRows(test) ==
    <<[kind |-> "test",
       name |-> Get(test, Key("name")).s,
       status |-> ToUpperCase(Get(test, Key("status")).s),
       text |-> ToFixed2(Get(test, Key("duration")).n, 1000) \o <<115>>]>>
    \o (IF Truthy(Get(test, Key("error")))
        THEN <<[kind |-> "error",
                name |-> Get(test, Key("name")).s,
                status |-> <<>>,
                text |-> Get(test, Key("error")).s]>>
        ELSE <<>>)

\* What generateHtmlReport renders of `res`.
HtmlReport(res) ==
    LET summary == Get(res, Key("summary"))
        tests == Get(res, Key("tests")).items
    IN  [passRate |-> PassRate(summary),
         stats |-> <<Get(summary, Key("total")).n, Get(summary, Key("passed")).n,
                     Get(summary, Key("failed")).n, Get(summary, Key("skipped")).n>>,
         rows |-> Concat([k \in DOMAIN tests |-> TestRows(tests[k])])]

\* Reading results.summary.total or calling results.tests.map throws a
\* TypeError unless summary is an object and tests an array.
HtmlThrows(res) ==
    \/ Get(res, Key("summary")).t # "obj"
    \/ Get(res, Key("tests")).t # "arr"

NoHtml == [passRate |-> <<>>, stats |-> <<>>, rows |-> <<>>]

\* The results written without the envelope.
JsonReportBare(res, now) == res

\* reportData of generateJsonReport.
JsonReport(res, now) ==
    JObj(<<Key("metadata"), Key("results")>>,
         <<JObj(<<Key("generated"), Key("title"), Key("format")>>,
                <<JStr(ToISOString(now)),
                  JStr(<<84, 101, 115, 116, 32, 69, 120, 101, 99, 117, 116, 105, 111, 110, 32, 82, 101, 112, 111, 114, 116>>),
                  JStr(<<106, 115, 111, 110>>)>>),
           res>>)

\* `test-report-${timestamp}.<ext>`
ReportFileName(now, ext) ==
    <<116, 101, 115, 116, 45, 114, 101, 112, 111, 114, 116, 45>> \o ReplaceColons(ToISOString(now)) \o <<46>> \o ext

Formats == {"html", "pdf", "json", "all"}

Wants(format, kind) == format = kind \/ format = "all"

\* Outcome of a generateReports call: what it read, what it returned (the
\* keys of `reports`) or the message it threw with, and what it wrote.
Reports(status, format, read, keys, html, json, error) ==
    [status |-> status, format |-> format, read |-> read, keys |-> keys,
     html |-> html, json |-> json, error |-> error]

NoReports == Reports("none", "none", <<>>, {}, NoHtml, <<>>, "none")

\* fs.writeFile of one generator may reject (the output directory is not
\* writable, the disk is full): `failing` names that generator, or is "none".
WriteFailures == {"none", "html", "pdf", "json"}

WriteError(kind) == kind \o " write failed"

\* The formats of `wanted` whose reports precede that of `kind` in the call.
EarlierFormats(wanted, kind) ==
    CASE kind = "html" -> {}
      [] kind = "pdf" -> wanted \cap {"html"}
      [] OTHER -> wanted \cap {"html", "pdf"}

\* The rest of generateReports once the latest file's text is parsed: the
\* html, pdf and json generators are awaited in that order inside the one
\* try block, and the first that throws ends the call.
ReportsOfParsed(latest, parsed, format, now, failing) ==
    IF ~parsed.ok
    THEN Reports("raised", format, <<latest>>, {}, NoHtml, <<>>, "SyntaxError")
    ELSE IF Wants(format, "html") /\ HtmlThrows(parsed.v)
    THEN Reports("raised", format, <<latest>>, {}, NoHtml, <<>>, "TypeError")
    ELSE IF failing # "none" /\ Wants(format, failing)
    THEN Reports("raised", format, <<latest>>,
                 EarlierFormats({k \in {"html", "pdf", "json"} : Wants(format, k)}, failing),
                 IF Wants(format, "html") /\ failing # "html"
                 THEN HtmlReport(parsed.v) ELSE NoHtml,
                 <<>>,
                 WriteError(failing))
    ELSE Reports("returned", format, <<latest>>,
                 {k \in {"html", "pdf", "json"} : Wants(format, k)},
                 IF Wants(format, "html") THEN HtmlReport(parsed.v) ELSE NoHtml,
                 IF Wants(format, "json")
                 THEN JsonStringify(JsonReport(parsed.v, now)) ELSE <<>>,
                 "none")

\* fs.readFile(latest) and JSON.parse
ReportsOfLatest(d, latest, format, now, failing) ==
    ReportsOfParsed(latest, JsonParse(d[latest]), format, now, failing)

\* The rest of generateReports once the directory is listed and filtered.
ReportsOfResultFiles(d, resultFiles, format, now, failing) ==
    IF resultFiles = {}
    THEN Reports("raised", format, <<>>, {}, NoHtml, <<>>,
                 "No test result files found")
    ELSE ReportsOfLatest(d, LatestResultFile(resultFiles), format, now, failing)

\* generateReports over directory d at instant now, with the write of
\* generator `failing` rejected.
GenerateReportsOutcome(d, format, now, failing) ==
    ReportsOfResultFiles(d, ResultFiles(DOMAIN d), format, now, failing)

(***************************************************************************)
(* runTests.                                                                *)
(***************************************************************************)
InitialResults(now) ==
    [summary |-> [total |-> 0, passed |-> 0, failed |-> 0, skipped |-> 0,
                  duration |-> 0],
     tests |-> <<>>,
     timestamp |-> ToISOString(now)]

\* The tests of the stage put ahead of those gathered so far.
AddStageInFront(res, r) ==
    [summary |-> [total |-> res.summary.total + r.summary.total,
                  passed |-> res.summary.passed + r.summary.passed,
                  failed |-> res.summary.failed + r.summary.failed,
                  skipped |-> res.summary.skipped + r.summary.skipped,
                  duration |-> res.summary.duration + r.summary.duration],
     tests |-> r.tests \o res.tests,
     timestamp |-> res.timestamp]

\* results.tests.push(...r.tests); results.summary.x += r.summary.x
AddStage(res, r) ==
    [summary |-> [total |-> res.summary.total + r.summary.total,
                  passed |-> res.summary.passed + r.summary.passed,
                  failed |-> res.summary.failed + r.summary.failed,
                  skipped |-> res.summary.skipped + r.summary.skipped,
                  duration |-> res.summary.duration + r.summary.duration],
     tests |-> res.tests \o r.tests,
     timestamp |-> res.timestamp]

\* Spreading r.tests throws a TypeError when r has no iterable `tests`.
Spreadable(r) == r.kind = "summary"

RunsE2E(t) == t = "all" \/ t = "e2e"
RunsPerformance(t) == t = "all" \/ t = "performance"
RunsAPI(t) == t = "all" \/ t = "api"

\* The E2E stage entered for every type but 'performance' and 'api'.
AfterStartE2EByDefault(t) ==
    IF t \notin {"performance", "api"} THEN "e2e"
    ELSE IF t = "performance" THEN "performance" ELSE "api"

\* The await runTests reaches next, from the one it is at.
AfterStart(t) ==
    IF RunsE2E(t) THEN "e2e"
    ELSE IF RunsPerformance(t) THEN "performance"
    ELSE IF RunsAPI(t) THEN "api" ELSE "done"
AfterE2E(t) ==
    IF RunsPerformance(t) THEN "performance"
    ELSE IF RunsAPI(t) THEN "api" ELSE "done"
AfterPerformance(t) == IF RunsAPI(t) THEN "api" ELSE "done"

\* What the runner subprocesses of this run have reported so far.
Stages == {"e2e", "performance"}

SuitesIn(rep) == Len(rep)
SpecsIn(rep) == SumSeq([i \in DOMAIN rep |-> Len(rep[i].specs)])
AttemptsIn(rep) ==
    SumSeq([i \in DOMAIN rep |->
              SumSeq([j \in DOMAIN rep[i].specs |->
                        Len(rep[i].specs[j].results)])])

NumSuites == SuitesIn(reports["e2e"]) + SuitesIn(reports["performance"])
NumSpecs == SpecsIn(reports["e2e"]) + SpecsIn(reports["performance"])
NumAttempts == AttemptsIn(reports["e2e"]) + AttemptsIn(reports["performance"])

\* No analyzeRisks or analyzeStructure call has been made.
NotAnalyzed == [status |-> "none"]

\* No analyze, generate-tests or other command has been started.
PipelineAtRest ==
    /\ languages = <<>>
    /\ frameworks = NotAnalyzed
    /\ testCases = NotAnalyzed
    /\ repoUrl = <<>>
    /\ ownerRepo = NotAnalyzed
    /\ cli = NotAnalyzed

AnalyzersAtRest ==
    /\ PipelineAtRest
    /\ repo = [exists |-> FALSE, listable |-> FALSE, entries |-> <<>>]
    /\ risks = NotAnalyzed
    /\ contents = <<>>
    /\ structure = NotAnalyzed

Init ==
    /\ pc = "idle"
    /\ testType \in TestTypes
    /\ reports = [s \in Stages |-> <<>>]
    /\ exec = [s \in Stages |-> NotRun]
    /\ results = NotRun
    /\ e2eResults = NotRun
    /\ perfResults = NotRun
    /\ apiResults = NotRun
    /\ clock = RunInstant
    /\ dir = EmptyDir
    /\ saved = <<>>
    /\ generated = NoReports
    /\ AnalyzersAtRest

\* runTests up to its first await (or to its return, when no stage applies).
RunTests ==
    /\ pc = "idle"
    /\ pc' = AfterStart(testType)
    /\ results' = InitialResults(clock)
    /\ UNCHANGED <<testType, reports, exec, e2eResults, perfResults, apiResults>>
    /\ UNCHANGED <<storeVars, analyzerVars, pipelineVars>>

\* The runner subprocess of the awaited stage: Playwright's JSON reporter
\* opens a suite, opens a spec in the last suite, or records one more
\* attempt of the last spec.
RunnerStartsSuite ==
    /\ pc \in Stages
    /\ NumSuites < MaxSuites
    /\ reports' = [reports EXCEPT ![pc] =
           Append(@, [title |-> SuiteTitle(Len(@) + 1), specs |-> <<>>])]
    /\ UNCHANGED <<pc, testType, exec, results, e2eResults, perfResults, apiResults>>
    /\ UNCHANGED <<storeVars, analyzerVars, pipelineVars>>

RunnerStartsSpec ==
    /\ pc \in Stages
    /\ reports[pc] # <<>>
    /\ NumSpecs < MaxSpecs
    /\ LET rep == reports[pc]
           n == Len(rep)
           spec == [title |-> SpecTitle(SpecsIn(rep) + 1), results |-> <<>>]
       IN  reports' = [reports EXCEPT ![pc] =
               [rep EXCEPT ![n].specs = Append(@, spec)]]
    /\ UNCHANGED <<pc, testType, exec, results, e2eResults, perfResults, apiResults>>
    /\ UNCHANGED <<storeVars, analyzerVars, pipelineVars>>

RunnerReportsAttempt ==
    /\ pc \in Stages
    /\ reports[pc] # <<>>
    /\ reports[pc][Len(reports[pc])].specs # <<>>
    /\ NumAttempts < MaxAttempts
    /\ \E a \in Attempts :
         LET rep == reports[pc]
             n == Len(rep)
             m == Len(rep[n].specs)
         IN  reports' = [reports EXCEPT ![pc] =
                 [rep EXCEPT ![n].specs[m].results = Append(@, a)]]
    /\ UNCHANGED <<pc, testType, exec, results, e2eResults, perfResults, apiResults>>
    /\ UNCHANGED <<storeVars, analyzerVars, pipelineVars>>

\* The awaited runE2ETests settles; runTests folds its result into `results`
\* or, when the spread of `tests` throws, logs and rethrows.
E2EStage ==
    /\ pc = "e2e"
    /\ \E o \in Outcomes, wall \in WallTimes :
         LET r == RunE2ETests(o.exit, o.stdout, reports["e2e"], wall)
         IN  /\ exec' = [exec EXCEPT !["e2e"] =
                            [kind |-> "ended", exit |-> o.exit, stdout |-> o.stdout]]
             /\ e2eResults' = r
             /\ IF Spreadable(r)
                THEN /\ results' = AddStage(results, r)
                     /\ pc' = AfterE2E(testType)
                ELSE /\ results' = results
                     /\ pc' = "raised"
    /\ UNCHANGED <<testType, reports, perfResults, apiResults>>
    /\ UNCHANGED <<storeVars, analyzerVars, pipelineVars>>

PerformanceStage ==
    /\ pc = "performance"
    /\ \E o \in Outcomes, wall \in WallTimes :
         LET r == RunPerformanceTests(o.exit, o.stdout,
                                      reports["performance"], wall)
         IN  /\ exec' = [exec EXCEPT !["performance"] =
                            [kind |-> "ended", exit |-> o.exit, stdout |-> o.stdout]]
             /\ perfResults' = r
             /\ IF Spreadable(r)
                THEN /\ results' = AddStage(results, r)
                     /\ pc' = AfterPerformance(testType)
                ELSE /\ results' = results
                     /\ pc' = "raised"
    /\ UNCHANGED <<testType, reports, e2eResults, apiResults>>
    /\ UNCHANGED <<storeVars, analyzerVars, pipelineVars>>

APIStage ==
    /\ pc = "api"
    /\ apiResults' = RunAPITests
    /\ results' = AddStage(results, RunAPITests)
    /\ pc' = "done"
    /\ UNCHANGED <<testType, reports, exec, e2eResults, perfResults>>
    /\ UNCHANGED <<storeVars, analyzerVars, pipelineVars>>

Next ==
    \/ RunTests
    \/ RunnerStartsSuite
    \/ RunnerStartsSpec
    \/ RunnerReportsAttempt
    \/ E2EStage
    \/ PerformanceStage
    \/ APIStage

Spec == Init /\ [][Next]_vars

(***************************************************************************)
(* The results directory: saveResults and generateReports.                  *)
(***************************************************************************)
\* Raw reports of the runs whose results are saved.
FailedThenSkipped ==
    << [title |-> SuiteTitle(1),
        specs |-> << [title |-> SpecTitle(1),
                      results |-> << [status |-> "failed", duration |-> 100,
                                      error |-> <<69, 34, 10, 120>>] >>],
                     [title |-> SpecTitle(2),
                      results |-> << [status |-> "skipped", duration |-> 0,
                                      error |-> Null] >>] >>] >>

FlakyOnce ==
    << [title |-> SuiteTitle(1),
        specs |-> << [title |-> SpecTitle(1),
                      results |-> << [status |-> "failed", duration |-> 100,
                                      error |-> <<84, 92, 111>>],
                                     [status |-> "passed", duration |-> 50,
                                      error |-> Null] >>] >>] >>

\* What runTests returns when no awaited stage throws.
RunTestsReturn(t, now, e2e, perf) ==
    LET r0 == InitialResults(now)
        r1 == IF RunsE2E(t) THEN AddStage(r0, e2e) ELSE r0
        r2 == IF RunsPerformance(t) THEN AddStage(r1, perf) ELSE r1
    IN  IF RunsAPI(t) THEN AddStage(r2, RunAPITests) ELSE r2

\* Results of runs started at `now`: of an unknown test type, and of the E2E
\* stage alone.
SampleResults(now) ==
    { RunTestsReturn("unit", now, NotRun, NotRun),
      RunTestsReturn("e2e", now,
                     RunE2ETests("ok", "json", FailedThenSkipped, 1200), NotRun) }

\* Files that are in the results directory without saveResults having
\* written them: analysis.json (the analyze command's default output), a
\* backup test-results-old.json.bak, and a result file kept under the name
\* test-results-final.json.
AnalysisFile == <<97, 110, 97, 108, 121, 115, 105, 115, 46, 106, 115, 111, 110>>
BackupFile == ResultPrefix \o <<111, 108, 100>> \o JsonSuffix \o <<46, 98, 97, 107>>
KeptFile == ResultPrefix \o <<102, 105, 110, 97, 108>> \o JsonSuffix

KeptResults ==
    RunTestsReturn("e2e", [day |-> 10000, ms |-> 0],
                   RunE2ETests("ok", "json", FlakyOnce, 1200), NotRun)

OtherFiles ==
    [f \in {AnalysisFile, BackupFile, KeptFile} |->
       IF f = AnalysisFile THEN <<123, 125>>
       ELSE JsonStringify(ResultsObject(KeptResults))]

\* The directory before the first save: empty, holding the files that are
\* no result files, or holding the kept result file as well.
StartDirs ==
    { [f \in present |-> OtherFiles[f]] :
        present \in { {}, {AnalysisFile, BackupFile},
                      {AnalysisFile, BackupFile, KeptFile} } }

InitStore ==
    /\ pc = "idle"
    /\ testType = "all"
    /\ reports = [s \in Stages |-> <<>>]
    /\ exec = [s \in Stages |-> NotRun]
    /\ results = NotRun
    /\ e2eResults = NotRun
    /\ perfResults = NotRun
    /\ apiResults = NotRun
    /\ clock \in StartInstants
    /\ dir \in StartDirs
    /\ saved = <<>>
    /\ generated = NoReports
    /\ AnalyzersAtRest

\* saveResults(res, outputDir), called `delay` after the run started.  The
\* reports of an earlier generateReports call are not looked at again.
SaveResults ==
    /\ Len(saved) < MaxSaves
    /\ \E res \in SampleResults(clock), delay \in Delays :
         LET now == Later(clock, delay)
             name == ResultFileName(now)
         IN  /\ clock' = now
             /\ dir' = WriteFile(dir, name, JsonStringify(ResultsObject(res)))
             /\ saved' = Append(saved, [name |-> name, results |-> res, at |-> now])
    /\ generated' = NoReports
    /\ UNCHANGED <<runnerVars, analyzerVars, pipelineVars>>

\* generateReports(resultsDir, outputDir, format), every write succeeding
GenerateReports ==
    /\ \E format \in Formats :
         generated' = GenerateReportsOutcome(dir, format, clock, "none")
    /\ UNCHANGED <<clock, dir, saved>>
    /\ UNCHANGED <<runnerVars, analyzerVars, pipelineVars>>

NextStore ==
    \/ SaveResults
    \/ GenerateReports

SpecStore == InitStore /\ [][NextStore]_vars

(***************************************************************************)
(* The run-tests command (index.js): runTests(testDir, options.testType),   *)
(* then saveResults(results, options.results).  The runner subprocesses     *)
(* report no suite, or one of two fixed reports.                            *)
(***************************************************************************)
InitRunCommand ==
    /\ pc = "idle"
    /\ testType \in TestTypes \cup {"integration", ""}
    /\ reports \in [Stages -> {<<>>, FailedThenSkipped, FlakyOnce}]
    /\ exec = [s \in Stages |-> NotRun]
    /\ results = NotRun
    /\ e2eResults = NotRun
    /\ perfResults = NotRun
    /\ apiResults = NotRun
    /\ clock = RunInstant
    /\ dir \in StartDirs
    /\ saved = <<>>
    /\ generated = NoReports
    /\ AnalyzersAtRest

\* saveResults(results, options.results) once runTests has returned
SaveRunResults ==
    /\ pc = "done"
    /\ pc' = "saved"
    /\ \E delay \in Delays :
         /\ clock' = Later(clock, delay)
         /\ dir' = WriteFile(dir, ResultFileName(Later(clock, delay)),
                             JsonStringify(ResultsObject(results)))
         /\ saved' = Append(saved, [name |-> ResultFileName(Later(clock, delay)),
                                    results |-> results,
                                    at |-> Later(clock, delay)])
    /\ UNCHANGED generated
    /\ UNCHANGED <<testType, reports, exec, results, e2eResults, perfResults, apiResults>>
    /\ UNCHANGED <<analyzerVars, pipelineVars>>

NextRunCommand ==
    \/ RunTests
    \/ E2EStage
    \/ PerformanceStage
    \/ APIStage
    \/ SaveRunResults

SpecRunCommand == InitRunCommand /\ [][NextRunCommand]_vars

(***************************************************************************)
(* The pass rate of the HTML report: generateReports over a directory that  *)
(* holds one saved RunSummary with any counts 0 <= passed <= total.         *)
(***************************************************************************)
\* A RunSummary with the given counts.
ResultsWithCounts(total, passed, now) ==
    [summary |-> [total |-> total, passed |-> passed, failed |-> total - passed,
                  skipped |-> 0, duration |-> 0],
     tests |-> <<>>,
     timestamp |-> ToISOString(now)]

InitRates ==
    /\ pc = "idle"
    /\ testType = "all"
    /\ reports = [s \in Stages |-> <<>>]
    /\ exec = [s \in Stages |-> NotRun]
    /\ results = NotRun
    /\ e2eResults = NotRun
    /\ perfResults = NotRun
    /\ apiResults = NotRun
    /\ clock = RunInstant
    /\ \E total \in 0..MaxTotal, passed \in 0..MaxTotal :
         /\ passed <= total
         /\ saved = << [name |-> ResultFileName(clock),
                        results |-> ResultsWithCounts(total, passed, clock),
                        at |-> clock] >>
    /\ dir = WriteFile(EmptyDir, saved[1].name,
                       JsonStringify(ResultsObject(saved[1].results)))
    /\ generated = NoReports
    /\ AnalyzersAtRest

SpecRates == InitRates /\ [][GenerateReports]_vars

(***************************************************************************)
(* Rendering of one saved run: the rows of the HTML table, and generators   *)
(* whose write fails.                                                       *)
(***************************************************************************)
\* Attempt lists of one spec: passed; failed with an error message; failed
\* by throwing a value that is no Error (the reporter's error then has no
\* message); skipped; failed and then passed on retry.
RowAttempts ==
    { << [status |-> "passed", duration |-> 50, error |-> Null] >>,
      << [status |-> "failed", duration |-> 100, error |-> <<69, 34, 120, 34>>] >>,
      << [status |-> "failed", duration |-> 100, error |-> Null] >>,
      << [status |-> "skipped", duration |-> 0, error |-> Null] >>,
      << [status |-> "failed", duration |-> 100, error |-> <<84, 92, 111>>],
         [status |-> "passed", duration |-> 50, error |-> Null] >> }

\* The runner's report of one suite with the given attempt lists.
RowReport(lists) ==
    << [title |-> SuiteTitle(1),
        specs |-> [k \in DOMAIN lists |->
                     [title |-> SpecTitle(k), results |-> lists[k]]]] >>

InitRender ==
    /\ pc = "idle"
    /\ testType = "e2e"
    /\ reports = [s \in Stages |-> <<>>]
    /\ exec = [s \in Stages |-> NotRun]
    /\ results = NotRun
    /\ e2eResults = NotRun
    /\ perfResults = NotRun
    /\ apiResults = NotRun
    /\ clock = RunInstant
    /\ \E n \in 1..MaxRows : \E lists \in [1..n -> RowAttempts] :
         saved = << [name |-> ResultFileName(clock),
                     results |-> RunTestsReturn("e2e", clock,
                                    RunE2ETests("ok", "json", RowReport(lists), 1200),
                                    NotRun),
                     at |-> clock] >>
    /\ dir = WriteFile(EmptyDir, saved[1].name,
                       JsonStringify(ResultsObject(saved[1].results)))
    /\ generated = NoReports
    /\ AnalyzersAtRest

\* generateReports(resultsDir, outputDir, format) with an output directory
\* in which the write of one generator may fail.
GenerateReportsInto ==
    /\ \E format \in Formats, failing \in WriteFailures :
         generated' = GenerateReportsOutcome(dir, format, clock, failing)
    /\ UNCHANGED <<clock, dir, saved>>
    /\ UNCHANGED <<runnerVars, analyzerVars, pipelineVars>>

SpecRender == InitRender /\ [][GenerateReportsInto]_vars

(***************************************************************************)
(* Risk analyzer (RiskAnalyzer): the repository clone is                    *)
(*   [exists, listable, entries]: whether fs.access(repoPath) resolves,     *)
(*   whether fs.readdir(repoPath) does, and the entries of the root in the  *)
(*   order readdir lists them, each                                         *)
(*   [name, kind, statFails, readFails, content, children].                 *)
(***************************************************************************)
\* String.prototype.toLowerCase
ToLowerCase(str) ==
    [i \in DOMAIN str |-> IF str[i] \in 65..90 THEN str[i] + 32 ELSE str[i]]

\* Names the checks look for.
DotEnv == <<46, 101, 110, 118>>    \* '.env'
PackageJson == <<112, 97, 99, 107, 97, 103, 101, 46, 106, 115, 111, 110>>    \* 'package.json'
PackageLockJson == <<112, 97, 99, 107, 97, 103, 101, 45, 108, 111, 99, 107, 46, 106, 115, 111, 110>>    \* 'package-lock.json'
YarnLock == <<121, 97, 114, 110, 46, 108, 111, 99, 107>>    \* 'yarn.lock'
AuthDir == <<97, 117, 116, 104>>    \* 'auth'
AuthenticationDir == <<97, 117, 116, 104, 101, 110, 116, 105, 99, 97, 116, 105, 111, 110>>    \* 'authentication'
EslintRc == <<46, 101, 115, 108, 105, 110, 116, 114, 99>>    \* '.eslintrc'
PrettierRc == <<46, 112, 114, 101, 116, 116, 105, 101, 114, 114, 99>>    \* '.prettierrc'
GithubDir == <<46, 103, 105, 116, 104, 117, 98>>    \* '.github'
Workflows == <<119, 111, 114, 107, 102, 108, 111, 119, 115>>    \* 'workflows'
GitlabCi == <<46, 103, 105, 116, 108, 97, 98, 45, 99, 105, 46, 121, 109, 108>>    \* '.gitlab-ci.yml'
TravisYml == <<46, 116, 114, 97, 118, 105, 115, 46, 121, 109, 108>>    \* '.travis.yml'
CircleCiDir == <<46, 99, 105, 114, 99, 108, 101, 99, 105>>    \* '.circleci'
ConfigYml == <<99, 111, 110, 102, 105, 103, 46, 121, 109, 108>>    \* 'config.yml'
Jenkinsfile == <<74, 101, 110, 107, 105, 110, 115, 102, 105, 108, 101>>    \* 'Jenkinsfile'

\* The directory names analyzeCodeQuality takes for tests.
TestDirs == << <<116, 101, 115, 116>>, <<116, 101, 115, 116, 115>>, <<95, 95, 116, 101, 115, 116, 115, 95, 95>>, <<115, 112, 101, 99>>, <<115, 112, 101, 99, 115>> >>

\* The `pattern` arguments of the two findFiles calls.
EnvPattern == <<46, 101, 110, 118>>    \* '.env'
CodePattern == <<46, 106, 115, 124, 46, 112, 121, 124, 46, 106, 97, 118, 97, 124, 46, 114, 98, 124, 46, 99, 111, 110, 102, 105, 103>>    \* '.js|.py|.java|.rb|.config'

\* Levels of the findings.
High == <<104, 105, 103, 104>>
Medium == <<109, 101, 100, 105, 117, 109>>
Low == <<108, 111, 119>>

\* The alternatives of a pattern, split at '|'.
RECURSIVE Alternatives(_, _)
Alternatives(pattern, acc) ==
    IF pattern = <<>> THEN <<acc>>
    ELSE IF Head(pattern) = 124 THEN <<acc>> \o Alternatives(Tail(pattern), <<>>)
    ELSE Alternatives(Tail(pattern), Append(acc, Head(pattern)))

\* One pattern character against one character: '.' is the wildcard, which
\* matches anything but a line terminator.
AtomMatches(atom, ch) ==
    IF atom = 46 THEN ch \notin {10, 13, 8232, 8233} ELSE atom = ch

\* The alternative matches the last Len(alt) characters of str.
MatchesAtEnd(alt, str) ==
    /\ Len(str) >= Len(alt)
    /\ \A i \in 1..Len(alt) : AtomMatches(alt[i], str[Len(str) - Len(alt) + i])

\* new RegExp(`(${pattern})$`).test(str)
RegexTest(pattern, str) ==
    \E k \in DOMAIN Alternatives(pattern, <<>>) :
       MatchesAtEnd(Alternatives(pattern, <<>>)[k], str)

\* fs.access(path.join(repoPath, name)) resolves: the entry is there and
\* can be reached (a dangling link cannot).
FileExists(r, name) ==
    \E i \in DOMAIN r.entries : r.entries[i].name = name /\ ~r.entries[i].statFails

\* fileExists of a path one level below the root.
NestedFileExists(r, name, child) ==
    \E i \in DOMAIN r.entries :
       /\ r.entries[i].name = name
       /\ ~r.entries[i].statFails
       /\ child \in r.entries[i].children

\* The entries of r that are files and whose names match, in readdir order.
RECURSIVE MatchingFiles(_, _)
MatchingFiles(entries, pattern) ==
    IF entries = <<>> THEN <<>>
    ELSE (IF Head(entries).kind = "file" /\ RegexTest(pattern, Head(entries).name)
          THEN <<Head(entries)>> ELSE <<>>)
         \o MatchingFiles(Tail(entries), pattern)

\* findFiles(repoPath, pattern): a rejected readdir or stat is caught, and
\* the catch returns [].
FindFiles(r, pattern) ==
    IF ~r.listable \/ \E i \in DOMAIN r.entries : r.entries[i].statFails
    THEN <<>>
    ELSE MatchingFiles(r.entries, pattern)

\* The five secretPatterns: `head`, then at most one character of `sep`,
\* then `tail`, whatever the case of the letters.
SecretPatterns ==
    << [head |-> <<97, 112, 105>>, sep |-> {95, 45}, tail |-> <<107, 101, 121>>],
       [head |-> <<97, 117, 116, 104>>, sep |-> {95, 45}, tail |-> <<116, 111, 107, 101, 110>>],
       [head |-> <<112, 97, 115, 115, 119, 111, 114, 100>>, sep |-> {}, tail |-> <<>>],
       [head |-> <<115, 101, 99, 114, 101, 116>>, sep |-> {}, tail |-> <<>>],
       [head |-> <<99, 114, 101, 100, 101, 110, 116, 105, 97, 108>>, sep |-> {}, tail |-> <<>>] >>

\* word stands in text from position i on.
ContainsAt(text, i, word) ==
    /\ i + Len(word) - 1 <= Len(text)
    /\ SubSeq(text, i, i + Len(word) - 1) = word

\* pattern.test(content) on the lower-cased content.
PatternTestLower(pat, text) ==
    \E i \in 1..Len(text) :
       /\ ContainsAt(text, i, pat.head)
       /\ \/ ContainsAt(text, i + Len(pat.head), pat.tail)
          \/ /\ i + Len(pat.head) <= Len(text)
             /\ text[i + Len(pat.head)] \in pat.sep
             /\ ContainsAt(text, i + Len(pat.head) + 1, pat.tail)

PatternTest(pat, content) == PatternTestLower(pat, ToLowerCase(content))

\* The inner loop of scanForSecrets: some pattern matches the content.
HasSecret(content) ==
    \E k \in DOMAIN SecretPatterns : PatternTest(SecretPatterns[k], content)

RECURSIVE FilesWithSecrets(_)
FilesWithSecrets(files) ==
    IF files = <<>> THEN <<>>
    ELSE (IF HasSecret(Head(files).content) THEN <<Head(files)>> ELSE <<>>)
         \o FilesWithSecrets(Tail(files))

\* scanForSecrets(files): a rejected readFile is caught outside the loop,
\* and the catch returns [].
ScanForSecrets(files) ==
    IF \E i \in DOMAIN files : files[i].readFails THEN <<>>
    ELSE FilesWithSecrets(files)

\* The paths of a list of entries.
Paths(files) == [i \in DOMAIN files |-> files[i].name]

Finding(type, level, files) == [type |-> type, level |-> level, files |-> files]

\* The finding pushed when the list of files is not empty.
FindingIfAny(type, level, files) ==
    IF files # <<>> THEN <<Finding(type, level, Paths(files))>> ELSE <<>>

FindingIf(cond, type, level) ==
    IF cond THEN <<Finding(type, level, <<>>)>> ELSE <<>>

\* The findings analyzeSecurityRisks pushes on conditions of the repository.
SecurityFindings(r) ==
    FindingIfAny("secret_exposure", High, FindFiles(r, EnvPattern))
    \o FindingIfAny("hardcoded_secrets", High,
                    ScanForSecrets(FindFiles(r, CodePattern)))
    \o FindingIf(FileExists(r, PackageJson), "dependency_check", Medium)
    \o FindingIf(FileExists(r, AuthDir) \/ FileExists(r, AuthenticationDir),
                 "auth_review", Medium)

\* The findings about the demo site, pushed whatever the repository holds.
DemoSecurityFindings ==
    << Finding("login_security", High, <<>>),
       Finding("checkout_security", High, <<>>) >>

\* The security pass without the findings about the demo site.
AnalyzeSecurityRisksOfRepoOnly(r) == SecurityFindings(r)

\* analyzeSecurityRisks(repoPath).  No call of its try block throws (the
\* helpers catch their own errors), so its catch is never entered.
AnalyzeSecurityRisks(r) == SecurityFindings(r) \o DemoSecurityFindings

\* analyzeCodeQuality(repoPath)
AnalyzeCodeQuality(r) ==
    FindingIf(~FileExists(r, EslintRc) /\ ~FileExists(r, PrettierRc),
              "no_linting", Low)
    \o FindingIf(~\E k \in DOMAIN TestDirs : FileExists(r, TestDirs[k]),
                 "no_tests", Medium)
    \o << Finding("web_accessibility", Medium, <<>>) >>

\* analyzeConfiguration(repoPath)
AnalyzeConfiguration(r) ==
    FindingIf(~(\/ NestedFileExists(r, GithubDir, Workflows)
               \/ FileExists(r, GitlabCi)
               \/ FileExists(r, TravisYml)
               \/ NestedFileExists(r, CircleCiDir, ConfigYml)
               \/ FileExists(r, Jenkinsfile)),
              "no_ci_cd", Low)
    \o FindingIf(/\ FileExists(r, PackageJson)
                 /\ ~(FileExists(r, PackageLockJson) \/ FileExists(r, YarnLock)),
                 "no_package_lock", Low)
    \o << Finding("browser_compatibility", Medium, <<>>) >>

\* The number of findings, whatever their level.
CountRisksOfAnyLevel(found, level) == Len(found)

\* risks.filter(risk => risk.level.toLowerCase() === level).length
CountRisksByLevel(found, level) ==
    Cardinality({i \in DOMAIN found : ToLowerCase(found[i].level) = level})

\* The RiskReport built from the results of the three passes.
RiskReport(security, quality, configuration) ==
    [status |-> "returned",
     securityRisks |-> security,
     codeQualityRisks |-> quality,
     configurationRisks |-> configuration,
     summary |->
       [totalRisks |-> Len(security) + Len(quality) + Len(configuration),
        highRisks |-> CountRisksByLevel(security \o quality \o configuration, High),
        mediumRisks |-> CountRisksByLevel(security \o quality \o configuration, Medium),
        lowRisks |-> CountRisksByLevel(security \o quality \o configuration, Low)]]

\* analyzeRisks(repoPath): fs.access(repoPath) is awaited first, and its
\* rejection is logged and rethrown.
AnalyzeRisksOutcome(r) ==
    IF ~r.exists THEN [status |-> "raised"]
    ELSE RiskReport(AnalyzeSecurityRisks(r), AnalyzeCodeQuality(r),
                    AnalyzeConfiguration(r))

\* A readable file, a directory, a file whose readFile is rejected, and a
\* dangling link (stat and access are rejected).
File(name, content) ==
    [name |-> name, kind |-> "file", statFails |-> FALSE, readFails |-> FALSE,
     content |-> content, children |-> {}]
Directory(name, children) ==
    [name |-> name, kind |-> "dir", statFails |-> FALSE, readFails |-> FALSE,
     content |-> <<>>, children |-> children]
UnreadableFile(name) ==
    [name |-> name, kind |-> "file", statFails |-> FALSE, readFails |-> TRUE,
     content |-> <<>>, children |-> {}]
DanglingLink(name) ==
    [name |-> name, kind |-> "link", statFails |-> TRUE, readFails |-> TRUE,
     content |-> <<>>, children |-> {}]

\* Entries a repository root may hold.
RootCatalogue ==
    { File(DotEnv, <<83, 69, 67, 82, 69, 84, 61, 49>>),
      File(<<46, 101, 110, 118, 46, 101, 120, 97, 109, 112, 108, 101>>, <<75, 69, 89, 61>>),
      File(<<109, 121, 101, 110, 118>>, <<120>>),
      File(<<112, 114, 111, 100, 46, 101, 110, 118>>, <<120>>),
      File(<<97, 46, 106, 115>>, <<118, 97, 114, 32, 65, 80, 73, 95, 75, 101, 121, 61, 49>>),
      File(<<98, 46, 106, 115>>, <<118, 97, 114, 32, 120, 61, 49>>),
      File(<<100, 46, 112, 121>>, <<112, 97, 115, 115, 87, 111, 114, 100>>),
      UnreadableFile(<<99, 46, 112, 121>>),
      DanglingLink(<<111, 108, 100, 46, 114, 98>>),
      Directory(<<108, 105, 98, 46, 106, 115>>, {}),
      File(PackageJson, <<123, 125>>),
      File(YarnLock, <<>>),
      File(EslintRc, <<123, 125>>),
      Directory(AuthDir, {}),
      Directory(TestDirs[2], {}),
      Directory(GithubDir, {Workflows}) }

\* The sequences of at most n entries of S, no entry twice.
RECURSIVE Listings(_, _)
Listings(S, n) ==
    IF n = 0 THEN {<<>>}
    ELSE {<<>>} \cup { <<e>> \o rest : e \in S, rest \in Listings(S, n - 1) }

DistinctNames(entries) ==
    \A i, j \in DOMAIN entries : i # j => entries[i].name # entries[j].name

\* A path that does not exist, a path that exists and cannot be listed, and
\* directories with up to MaxRootEntries entries in any readdir order.
Repos ==
    { [exists |-> FALSE, listable |-> FALSE, entries |-> <<>>] }
    \cup { [exists |-> TRUE, listable |-> l, entries |-> es] :
             l \in BOOLEAN,
             es \in { x \in Listings(RootCatalogue, MaxRootEntries) : DistinctNames(x) } }

InitRisks ==
    /\ pc = "idle"
    /\ testType = "all"
    /\ reports = [s \in Stages |-> <<>>]
    /\ exec = [s \in Stages |-> NotRun]
    /\ results = NotRun
    /\ e2eResults = NotRun
    /\ perfResults = NotRun
    /\ apiResults = NotRun
    /\ clock = RunInstant
    /\ dir = EmptyDir
    /\ saved = <<>>
    /\ generated = NoReports
    /\ repo \in Repos
    /\ risks = NotAnalyzed
    /\ contents = <<>>
    /\ structure = NotAnalyzed
    /\ PipelineAtRest

\* analyzeRisks(repoPath)
AnalyzeRisks ==
    /\ risks = NotAnalyzed
    /\ risks' = AnalyzeRisksOutcome(repo)
    /\ UNCHANGED <<repo, contents, structure>>
    /\ UNCHANGED <<runnerVars, storeVars, pipelineVars>>

SpecRisks == InitRisks /\ [][AnalyzeRisks]_vars

(***************************************************************************)
(* Structure classifier (RepoAnalyzer.analyzeStructure): `contents` is the  *)
(* listing of the repository root as the GitHub contents API returns it,    *)
(* a sequence of items [type, name].                                        *)
(***************************************************************************)
Item(type, name) == [type |-> type, name |-> name]

\* structure before the loop.
EmptyStructure ==
    [status |-> "returned", rootFiles |-> <<>>, hasTests |-> FALSE,
     hasDocs |-> FALSE, hasCI |-> FALSE, configFiles |-> <<>>,
     packageManagers |-> <<>>]

\* The condition without the test for '.yml'.
IsConfigFileButYml(name) ==
    \/ EndsWith(name, <<46, 106, 115, 111, 110>>)
    \/ EndsWith(name, <<46, 121, 97, 109, 108>>)
    \/ EndsWith(name, <<46, 99, 111, 110, 102, 105, 103, 46, 106, 115>>)
    \/ name = <<46, 101, 110, 118, 46, 101, 120, 97, 109, 112, 108, 101>>

\* The condition under which a file is pushed to configFiles.
IsConfigFile(name) ==
    \/ EndsWith(name, <<46, 106, 115, 111, 110>>)
    \/ EndsWith(name, <<46, 121, 109, 108>>)
    \/ EndsWith(name, <<46, 121, 97, 109, 108>>)
    \/ EndsWith(name, <<46, 99, 111, 110, 102, 105, 103, 46, 106, 115>>)
    \/ name = <<46, 101, 110, 118, 46, 101, 120, 97, 109, 112, 108, 101>>

\* The chain with the lock file taking the place of package.json.
PackageManagersOfLockFiles(name) ==
    IF name = PackageLockJson THEN <<"npm">>
    ELSE IF name = YarnLock THEN <<"yarn">>
    ELSE IF name = <<112, 110, 112, 109, 45, 108, 111, 99, 107, 46, 121, 97, 109, 108>> THEN <<"pnpm">>
    ELSE IF name = <<71, 101, 109, 102, 105, 108, 101>> THEN <<"bundler">>
    ELSE IF name = <<114, 101, 113, 117, 105, 114, 101, 109, 101, 110, 116, 115, 46, 116, 120, 116>> \/ name = <<80, 105, 112, 102, 105, 108, 101>> THEN <<"pip">>
    ELSE IF name = <<103, 111, 46, 109, 111, 100>> THEN <<"go">>
    ELSE <<>>

\* The identifiers the if / else-if chain pushes for a file name.
PackageManagersOf(name) ==
    IF name = PackageJson THEN <<"npm">>
    ELSE IF name = YarnLock THEN <<"yarn">>
    ELSE IF name = <<112, 110, 112, 109, 45, 108, 111, 99, 107, 46, 121, 97, 109, 108>> THEN <<"pnpm">>
    ELSE IF name = <<71, 101, 109, 102, 105, 108, 101>> THEN <<"bundler">>
    ELSE IF name = <<114, 101, 113, 117, 105, 114, 101, 109, 101, 110, 116, 115, 46, 116, 120, 116>> \/ name = <<80, 105, 112, 102, 105, 108, 101>> THEN <<"pip">>
    ELSE IF name = <<103, 111, 46, 109, 111, 100>> THEN <<"go">>
    ELSE <<>>

\* The lower-cased directory names that set hasTests, hasDocs and hasCI.
TestsNames == { <<116, 101, 115, 116>>, <<116, 101, 115, 116, 115>>, <<95, 95, 116, 101, 115, 116, 115, 95, 95>>, <<115, 112, 101, 99>> }
DocsNames == { <<100, 111, 99>>, <<100, 111, 99, 115>>, <<100, 111, 99, 117, 109, 101, 110, 116, 97, 116, 105, 111, 110>> }
CINames == { <<46, 103, 105, 116, 104, 117, 98>>, <<46, 103, 105, 116, 108, 97, 98>>, <<99, 105>>, <<46, 99, 105, 114, 99, 108, 101, 99, 105>> }

\* Each flag assigned from the directory at hand, not only raised.
DirectoryStepAssigning(st, lowerName) ==
    [st EXCEPT !.hasTests = lowerName \in TestsNames,
               !.hasDocs = lowerName \in DocsNames,
               !.hasCI = lowerName \in CINames]

\* The body of the loop for a directory of lower-cased name lowerName.
DirectoryStep(st, lowerName) ==
    IF lowerName \in TestsNames THEN [st EXCEPT !.hasTests = TRUE]
    ELSE IF lowerName \in DocsNames THEN [st EXCEPT !.hasDocs = TRUE]
    ELSE IF lowerName \in CINames THEN [st EXCEPT !.hasCI = TRUE]
    ELSE st

\* The body of the loop for one item.
StructureStep(st, item) ==
    IF item.type = "file"
    THEN [st EXCEPT
            !.rootFiles = Append(@, item.name),
            !.configFiles = IF IsConfigFile(item.name) THEN Append(@, item.name) ELSE @,
            !.packageManagers = @ \o PackageManagersOf(item.name)]
    ELSE IF item.type = "dir"
    THEN DirectoryStep(st, ToLowerCase(item.name))
    ELSE st

\* The loop over the items, from structure st.
RECURSIVE StructureLoop(_, _)
StructureLoop(st, items) ==
    IF items = <<>> THEN st
    ELSE StructureLoop(StructureStep(st, Head(items)), Tail(items))

\* analyzeStructure(contents)
AnalyzeStructureOf(items) == StructureLoop(EmptyStructure, items)

\* Items a repository root may hold.
ItemCatalogue ==
    { Item("file", PackageJson), Item("file", YarnLock),
      Item("file", <<112, 110, 112, 109, 45, 108, 111, 99, 107, 46, 121, 97, 109, 108>>), Item("file", <<71, 101, 109, 102, 105, 108, 101>>),
      Item("file", <<114, 101, 113, 117, 105, 114, 101, 109, 101, 110, 116, 115, 46, 116, 120, 116>>), Item("file", <<80, 105, 112, 102, 105, 108, 101>>),
      Item("file", <<103, 111, 46, 109, 111, 100>>), Item("file", <<97, 112, 112, 46, 99, 111, 110, 102, 105, 103, 46, 106, 115>>),
      Item("file", <<46, 101, 110, 118, 46, 101, 120, 97, 109, 112, 108, 101>>), Item("file", TravisYml),
      Item("file", <<116, 101, 115, 116, 115>>),
      Item("dir", <<116, 101, 115, 116, 115>>), Item("dir", <<68, 111, 99, 115>>),
      Item("dir", <<109, 121, 116, 101, 115, 116, 115>>), Item("dir", GithubDir),
      Item("dir", <<103, 111, 46, 109, 111, 100>>), Item("symlink", <<115, 112, 101, 99>>) }

InitStructure ==
    /\ pc = "idle"
    /\ testType = "all"
    /\ reports = [s \in Stages |-> <<>>]
    /\ exec = [s \in Stages |-> NotRun]
    /\ results = NotRun
    /\ e2eResults = NotRun
    /\ perfResults = NotRun
    /\ apiResults = NotRun
    /\ clock = RunInstant
    /\ dir = EmptyDir
    /\ saved = <<>>
    /\ generated = NoReports
    /\ repo = [exists |-> FALSE, listable |-> FALSE, entries |-> <<>>]
    /\ risks = NotAnalyzed
    /\ contents \in Listings(ItemCatalogue, MaxItems)
    /\ structure = NotAnalyzed
    /\ PipelineAtRest

\* analyzeStructure(contents)
AnalyzeStructure ==
    /\ structure = NotAnalyzed
    /\ structure' = AnalyzeStructureOf(contents)
    /\ UNCHANGED <<repo, risks, contents>>
    /\ UNCHANGED <<runnerVars, storeVars, pipelineVars>>

SpecStructure == InitStructure /\ [][AnalyzeStructure]_vars

(***************************************************************************)
(* Framework Detector (repo-analyzer.js: detectFrameworks) and the call of  *)
(* analyze that feeds it.  `languages` maps a language name to its byte     *)
(* count; a name that is absent, or whose count is 0, is falsy.             *)
(***************************************************************************)
MaxConfigItems == 2 \* items of the root listing in the runs of SpecFrameworks

\* languages.X read as a condition
HasLanguage(langs, name) == name \in DOMAIN langs /\ langs[name] # 0

\* Array.prototype.includes
Includes(array, x) == \E k \in DOMAIN array : array[k] = x

\* One push for every config file that is present.
JavascriptFrameworksOfEach(configFiles) ==
    (IF Includes(configFiles, <<110, 101, 120, 116, 46, 99, 111, 110, 102, 105, 103, 46, 106, 115>>) THEN <<"Next.js">> ELSE <<>>)
    \o (IF Includes(configFiles, <<110, 117, 120, 116, 46, 99, 111, 110, 102, 105, 103, 46, 106, 115>>) THEN <<"Nuxt.js">> ELSE <<>>)
    \o (IF Includes(configFiles, <<97, 110, 103, 117, 108, 97, 114, 46, 106, 115, 111, 110>>) THEN <<"Angular">> ELSE <<>>)
    \o (IF Includes(configFiles, <<114, 101, 109, 105, 120, 46, 99, 111, 110, 102, 105, 103, 46, 106, 115>>) THEN <<"Remix">> ELSE <<>>)

\* The if / else-if chain over configFiles.
JavascriptFrameworks(configFiles) ==
    IF Includes(configFiles, <<110, 101, 120, 116, 46, 99, 111, 110, 102, 105, 103, 46, 106, 115>>) THEN <<"Next.js">>
    ELSE IF Includes(configFiles, <<110, 117, 120, 116, 46, 99, 111, 110, 102, 105, 103, 46, 106, 115>>) THEN <<"Nuxt.js">>
    ELSE IF Includes(configFiles, <<97, 110, 103, 117, 108, 97, 114, 46, 106, 115, 111, 110>>) THEN <<"Angular">>
    ELSE IF Includes(configFiles, <<114, 101, 109, 105, 120, 46, 99, 111, 110, 102, 105, 103, 46, 106, 115>>) THEN <<"Remix">>
    ELSE <<>>

\* The tag pushed for npm alone.
NodeTagForNpm(pkgManager) ==
    IF Includes(pkgManager, "npm") THEN <<"Node.js">> ELSE <<>>

\* The 'Node.js' push.
NodeTag(pkgManager) ==
    IF Includes(pkgManager, "npm") \/ Includes(pkgManager, "yarn")
       \/ Includes(pkgManager, "pnpm")
    THEN <<"Node.js">> ELSE <<>>

PythonFrameworks(rootFiles) ==
    IF Includes(rootFiles, <<109, 97, 110, 97, 103, 101, 46, 112, 121>>) THEN <<"Django">>
    ELSE IF Includes(rootFiles, <<97, 112, 112, 46, 112, 121>>) \/ Includes(rootFiles, <<119, 115, 103, 105, 46, 112, 121>>)
         THEN <<"Flask">>
    ELSE IF Includes(rootFiles, <<102, 97, 115, 116, 97, 112, 105, 46, 112, 121>>) THEN <<"FastAPI">>
    ELSE <<>>

JavascriptBucket(st, langs) ==
    IF HasLanguage(langs, "JavaScript") \/ HasLanguage(langs, "TypeScript")
    THEN JavascriptFrameworks(st.configFiles)
         \o NodeTag(st.packageManagers)
    ELSE <<>>

PythonBucket(st, langs) ==
    IF HasLanguage(langs, "Python") THEN PythonFrameworks(st.rootFiles) ELSE <<>>

\* An object that has a key only for the buckets something was pushed to.
DetectFrameworksSparse(st, langs) ==
    [k \in { b \in {"javascript", "python"} :
                (IF b = "javascript" THEN JavascriptBucket(st, langs)
                 ELSE PythonBucket(st, langs)) # <<>> } |->
       IF k = "javascript" THEN JavascriptBucket(st, langs)
       ELSE PythonBucket(st, langs)]

DetectFrameworks(st, langs) ==
    [javascript |-> JavascriptBucket(st, langs),
     python |-> PythonBucket(st, langs),
     ruby |-> <<>>,
     java |-> <<>>,
     golang |-> <<>>,
     other |-> <<>>]

(***************************************************************************)
(* Test Descriptor Generator (TestGenerator).  A field a descriptor does    *)
(* not have is "undefined".                                                 *)
(***************************************************************************)
Descriptor(name, description, framework, priority, type, template, url) ==
    [name |-> name, description |-> description, framework |-> framework,
     priority |-> priority, type |-> type, template |-> template, url |-> url]

TestFramework(langs) ==
    IF HasLanguage(langs, "Python") THEN "pytest"
    ELSE IF HasLanguage(langs, "Java") THEN "JUnit"
    ELSE IF HasLanguage(langs, "Ruby") THEN "RSpec"
    ELSE IF HasLanguage(langs, "Go") THEN "Go testing"
    ELSE "Jest"

BasicUnitTests(langs) ==
    Descriptor("Basic Unit Tests",
               "Basic unit tests for core functionality",
               TestFramework(langs), "High", "unit",
               "undefined",
               "undefined")

JavascriptUnitTests(analysis) ==
    IF HasLanguage(analysis.languages, "JavaScript")
       \/ HasLanguage(analysis.languages, "TypeScript")
    THEN << Descriptor("JavaScript Function Tests",
               "Unit tests for JavaScript functions and modules",
               "Jest", "High", "unit",
               "test_templates/js_unit_test.js",
               "undefined") >>
         \o (IF Includes(analysis.frameworks.javascript, "React")
                 \/ Includes(analysis.frameworks.javascript, "Next.js")
              THEN << Descriptor("React Component Tests",
               "Unit tests for React components",
               "React Testing Library", "High", "unit",
               "test_templates/react_component_test.js",
               "undefined") >>
              ELSE <<>>)
    ELSE <<>>

PythonUnitTests(analysis) ==
    IF HasLanguage(analysis.languages, "Python")
    THEN << Descriptor("Python Function Tests",
               "Unit tests for Python functions and modules",
               "pytest", "High", "unit",
               "test_templates/python_unit_test.py",
               "undefined") >>
         \o (IF Includes(analysis.frameworks.python, "Django")
              THEN << Descriptor("Django Model Tests",
               "Unit tests for Django models",
               "Django Test", "High", "unit",
               "test_templates/django_model_test.py",
               "undefined") >>
              ELSE <<>>)
    ELSE <<>>

\* The basic template pushed after the language-specific test cases.
GenerateUnitTestsBasicLast(analysis) ==
    JavascriptUnitTests(analysis) \o PythonUnitTests(analysis)
    \o << BasicUnitTests(analysis.languages) >>

GenerateUnitTests(analysis) ==
    << BasicUnitTests(analysis.languages) >>
    \o JavascriptUnitTests(analysis) \o PythonUnitTests(analysis)

GenerateIntegrationTests(analysis) ==
    << Descriptor("Basic Integration Tests",
               "Tests for component interactions",
               "undefined", "Medium", "integration",
               "undefined",
               "undefined") >>
    \o (IF HasLanguage(analysis.languages, "JavaScript")
            \/ HasLanguage(analysis.languages, "TypeScript")
         THEN (IF Includes(analysis.frameworks.javascript, "Node.js")
               THEN << Descriptor("API Integration Tests",
               "Integration tests for API endpoints",
               "Supertest", "High", "integration",
               "test_templates/api_integration_test.js",
               "undefined") >>
               ELSE <<>>)
              \o (IF Includes(analysis.frameworks.javascript, "React")
                      \/ Includes(analysis.frameworks.javascript, "Next.js")
                   THEN << Descriptor("React Component Integration",
               "Integration tests for React component interactions",
               "React Testing Library", "Medium", "integration",
               "test_templates/react_integration_test.js",
               "undefined") >>
                   ELSE <<>>)
         ELSE <<>>)
    \o (IF HasLanguage(analysis.languages, "Python")
            /\ (Includes(analysis.frameworks.python, "Django")
                \/ Includes(analysis.frameworks.python, "Flask"))
         THEN << Descriptor("API Route Integration",
               "Integration tests for API routes",
               "pytest", "High", "integration",
               "test_templates/python_api_integration.py",
               "undefined") >>
         ELSE <<>>)

GenerateE2ETests(analysis) ==
    << Descriptor("User Flow Tests",
               "End-to-end tests for critical user flows",
               "Playwright", "High", "e2e",
               "undefined",
               "undefined"),
       Descriptor("SauceDemo Login Tests",
               "Test login functionality on SauceDemo site",
               "Playwright", "High", "e2e",
               "test_templates/saucedemo_login_test.js",
               "https://www.saucedemo.com/"),
       Descriptor("SauceDemo Shopping Cart Tests",
               "Test shopping cart functionality on SauceDemo site",
               "Playwright", "High", "e2e",
               "test_templates/saucedemo_cart_test.js",
               "https://www.saucedemo.com/"),
       Descriptor("SauceDemo Checkout Process Tests",
               "Test checkout process on SauceDemo site",
               "Playwright", "High", "e2e",
               "test_templates/saucedemo_checkout_test.js",
               "https://www.saucedemo.com/") >>

\* The SauceDemo descriptor pushed only for a repository with JavaScript.
GenerateAPITestsOfRepository(analysis) ==
    << Descriptor("API Endpoint Tests",
               "Tests for API endpoints",
               "Supertest/Axios", "High", "api",
               "undefined",
               "undefined") >>
    \o (IF HasLanguage(analysis.languages, "JavaScript")
         THEN << Descriptor("SauceDemo API Tests",
               "Tests for SauceDemo API (if available)",
               "Axios", "Medium", "api",
               "undefined",
               "https://www.saucedemo.com/api") >>
         ELSE <<>>)

GenerateAPITests(analysis) ==
    << Descriptor("API Endpoint Tests",
               "Tests for API endpoints",
               "Supertest/Axios", "High", "api",
               "undefined",
               "undefined"),
       Descriptor("SauceDemo API Tests",
               "Tests for SauceDemo API (if available)",
               "Axios", "Medium", "api",
               "undefined",
               "https://www.saucedemo.com/api") >>

GeneratePerformanceTests(analysis) ==
    << Descriptor("Load Time Tests",
               "Tests for page load time",
               "Lighthouse", "Medium", "performance",
               "undefined",
               "undefined"),
       Descriptor("SauceDemo Performance Tests",
               "Performance tests for SauceDemo site",
               "Lighthouse", "Medium", "performance",
               "test_templates/saucedemo_performance_test.js",
               "https://www.saucedemo.com/") >>

GenerateSecurityTests(analysis) ==
    << Descriptor("Authentication Tests",
               "Security tests for authentication",
               "OWASP ZAP", "High", "security",
               "undefined",
               "undefined"),
       Descriptor("SauceDemo Security Tests",
               "Security tests for SauceDemo site",
               "OWASP ZAP", "High", "security",
               "test_templates/saucedemo_security_test.js",
               "https://www.saucedemo.com/") >>

\* Reading `.includes` of a bucket the frameworks object does not have
\* throws a TypeError.
GeneratorThrows(analysis) ==
    \/ /\ HasLanguage(analysis.languages, "JavaScript")
          \/ HasLanguage(analysis.languages, "TypeScript")
       /\ "javascript" \notin DOMAIN analysis.frameworks
    \/ /\ HasLanguage(analysis.languages, "Python")
       /\ "python" \notin DOMAIN analysis.frameworks

\* generateTests(analysisPath); `read` tells what the analysis file held:
\* "missing" (readFile rejects), "garbage" (JSON.parse throws) or "json".
GenerateTestsOutcome(read, analysis) ==
    IF read # "json" \/ GeneratorThrows(analysis)
    THEN [status |-> "raised", read |-> read]
    ELSE [status |-> "returned", read |-> read,
          cases |-> [unitTests |-> GenerateUnitTests(analysis),
                     integrationTests |-> GenerateIntegrationTests(analysis),
                     e2eTests |-> GenerateE2ETests(analysis),
                     apiTests |-> GenerateAPITests(analysis),
                     performanceTests |-> GeneratePerformanceTests(analysis),
                     securityTests |-> GenerateSecurityTests(analysis)]]

\* Language mappings as the GitHub API reports them, and two with a zero
\* byte count.
LanguageMaps ==
    { [n \in names |-> 1200] :
         names \in { {}, {"JavaScript"}, {"TypeScript"}, {"Python"}, {"Java"},
                      {"Ruby"}, {"Go"}, {"JavaScript", "Python"},
                      {"TypeScript", "Java", "Go"}, {"HTML", "CSS"} } }
    \cup { [n \in {"JavaScript", "Python"} |-> IF n = "JavaScript" THEN 0 ELSE 1200],
            [n \in {"JavaScript", "Python"} |-> IF n = "Python" THEN 0 ELSE 1200] }

\* Root entries that bear on framework detection.
FrameworkCatalogue ==
    { Item("file", <<110, 101, 120, 116, 46, 99, 111, 110, 102, 105, 103, 46, 106, 115>>), Item("file", <<110, 117, 120, 116, 46, 99, 111, 110, 102, 105, 103, 46, 106, 115>>),
      Item("file", <<97, 110, 103, 117, 108, 97, 114, 46, 106, 115, 111, 110>>), Item("file", <<114, 101, 109, 105, 120, 46, 99, 111, 110, 102, 105, 103, 46, 106, 115>>),
      Item("file", PackageJson), Item("file", YarnLock),
      Item("file", <<112, 110, 112, 109, 45, 108, 111, 99, 107, 46, 121, 97, 109, 108>>), Item("file", <<71, 101, 109, 102, 105, 108, 101>>),
      Item("file", <<109, 97, 110, 97, 103, 101, 46, 112, 121>>), Item("file", <<97, 112, 112, 46, 112, 121>>),
      Item("file", <<119, 115, 103, 105, 46, 112, 121>>), Item("file", <<102, 97, 115, 116, 97, 112, 105, 46, 112, 121>>),
      Item("dir", <<110, 101, 120, 116, 46, 99, 111, 110, 102, 105, 103, 46, 106, 115>>) }

\* frameworks objects of analysis files no analyze call of this run wrote.
WrittenFrameworks ==
    { [javascript |-> js, python |-> py, ruby |-> <<>>, java |-> <<"Spring">>,
       golang |-> <<>>, other |-> <<>>] :
         js \in { <<>>, <<"React">>, <<"Express", "Node.js">> },
         py \in { <<>>, <<"Flask">> } }

InitFrameworks ==
    /\ pc = "idle"
    /\ testType = "all"
    /\ reports = [s \in Stages |-> <<>>]
    /\ exec = [s \in Stages |-> NotRun]
    /\ results = NotRun
    /\ e2eResults = NotRun
    /\ perfResults = NotRun
    /\ apiResults = NotRun
    /\ clock = RunInstant
    /\ dir = EmptyDir
    /\ saved = <<>>
    /\ generated = NoReports
    /\ repo = [exists |-> FALSE, listable |-> FALSE, entries |-> <<>>]
    /\ risks = NotAnalyzed
    /\ structure = NotAnalyzed
    /\ languages \in LanguageMaps
    /\ \/ contents \in Listings(FrameworkCatalogue, MaxConfigItems)
          /\ frameworks = NotAnalyzed
       \/ contents = <<>> /\ frameworks \in WrittenFrameworks
    /\ testCases = NotAnalyzed
    /\ repoUrl = <<>>
    /\ ownerRepo = NotAnalyzed
    /\ cli = NotAnalyzed

\* analyze, from the root contents and the languages the API returned:
\* analyzeStructure(contents), then detectFrameworks(structure, languages).
Analyze ==
    /\ structure = NotAnalyzed
    /\ frameworks = NotAnalyzed
    /\ structure' = AnalyzeStructureOf(contents)
    /\ frameworks' = DetectFrameworks(AnalyzeStructureOf(contents), languages)
    /\ UNCHANGED <<repo, risks, contents>>
    /\ UNCHANGED <<languages, testCases, repoUrl, ownerRepo, cli>>
    /\ UNCHANGED <<runnerVars, storeVars>>

\* generateTests(analysisPath) on the analysis file that holds `languages`
\* and `frameworks`, or on a file that is missing or is no JSON.
GenerateTests ==
    /\ frameworks # NotAnalyzed
    /\ testCases = NotAnalyzed
    /\ \E read \in {"json", "missing", "garbage"} :
         testCases' = GenerateTestsOutcome(read,
                          [languages |-> languages, frameworks |-> frameworks])
    /\ UNCHANGED <<languages, frameworks, repoUrl, ownerRepo, cli>>
    /\ UNCHANGED <<runnerVars, storeVars, analyzerVars>>

NextFrameworks ==
    \/ Analyze
    \/ GenerateTests

SpecFrameworks == InitFrameworks /\ [][NextFrameworks]_vars

(***************************************************************************)
(* parseRepoUrl (repo-analyzer.js).  `new URL(text)` is modelled for the    *)
(* texts of RepoUrls: a text without a scheme is no URL; an http(s) URL has *)
(* a lower-cased host up to the next '/', '?' or '#' and a path up to the   *)
(* next '?' or '#'.                                                         *)
(***************************************************************************)
MaxExtraSegments == 1 \* path segments that follow the repository name

Slash == 47
Backslash == 92
LineTerminators == {10, 13, 8232, 8233}

\* Index of the first element of str at or after k that is in stops;
\* Len(str) + 1 when there is none.
RECURSIVE IndexOfAny(_, _, _)
IndexOfAny(str, stops, k) ==
    IF k > Len(str) THEN Len(str) + 1
    ELSE IF str[k] \in stops THEN k
    ELSE IndexOfAny(str, stops, k + 1)

\* The text starts with a letter and runs in scheme characters up to a ':'.
HasScheme(str) ==
    LET colon == IndexOfAny(str, {58}, 1)
    IN  /\ colon <= Len(str)
        /\ colon > 1
        /\ str[1] \in (65..90) \cup (97..122)
        /\ \A k \in 2..(colon - 1) :
              str[k] \in (65..90) \cup (97..122) \cup (48..57) \cup {43, 45, 46}

\* In an http(s) URL a backslash ahead of the query reads as a slash.
Slashed(str) ==
    [k \in DOMAIN str |->
       IF str[k] = Backslash /\ k < IndexOfAny(str, {63, 35}, 1) THEN Slash ELSE str[k]]

\* URL of an http(s) text whose backslashes have been read as slashes.
SpecialUrl(str) ==
    LET from == IndexOfAny(str, {58}, 1) + 3
        hostEnd == IndexOfAny(str, {47, 63, 35}, from)
        pathEnd == IndexOfAny(str, {63, 35}, hostEnd)
    IN  IF hostEnd = from THEN [ok |-> FALSE]
        ELSE [ok |-> TRUE,
              hostname |-> ToLowerCase(SubSeq(str, from, hostEnd - 1)),
              pathname |-> IF pathEnd = hostEnd THEN <<Slash>>
                           ELSE SubSeq(str, hostEnd, pathEnd - 1)]

\* new URL(str): [ok, hostname, pathname]; ok is FALSE when it throws.
ParseUrl(str) ==
    IF ~HasScheme(str) THEN [ok |-> FALSE]
    ELSE IF StartsWith(ToLowerCase(str), <<104, 116, 116, 112, 115, 58, 47, 47>>) \/ StartsWith(ToLowerCase(str), <<104, 116, 116, 112, 58, 47, 47>>)
    THEN SpecialUrl(Slashed(str))
    ELSE [ok |-> TRUE, hostname |-> <<>>,
          pathname |-> SubSeq(str, IndexOfAny(str, {58}, 1) + 1, Len(str))]

\* String.prototype.split('/')
RECURSIVE Split(_)
Split(str) ==
    LET k == IndexOfAny(str, {Slash}, 1)
    IN  IF k > Len(str) THEN <<str>>
        ELSE <<SubSeq(str, 1, k - 1)>> \o Split(SubSeq(str, k + 1, Len(str)))

\* str.replace(/\\.git$/, ''): the pattern is a backslash, any character
\* but a line terminator, then 'git' at the end of the text.
ReplaceGit(str) ==
    IF /\ Len(str) >= 5
       /\ SubSeq(str, Len(str) - 2, Len(str)) = <<103, 105, 116>>
       /\ str[Len(str) - 4] = Backslash
       /\ str[Len(str) - 3] \notin LineTerminators
    THEN SubSeq(str, 1, Len(str) - 5)
    ELSE str

\* ownerRepo is assigned by the try / catch: the text is no URL, or it is a
\* URL whose host is, or ends in, github.com.
OwnerRepoAssigned(str) ==
    ~ParseUrl(str).ok \/ EndsWith(ParseUrl(str).hostname, <<103, 105, 116, 104, 117, 98, 46, 99, 111, 109>>)

\* The value it is assigned.
OwnerRepoText(str) ==
    IF ~ParseUrl(str).ok THEN str
    ELSE SubSeq(ParseUrl(str).pathname, 2, Len(ParseUrl(str).pathname))

\* ownerRepo.split('/') throws a TypeError when ownerRepo is undefined.
ParseRepoUrl(str) ==
    IF ~OwnerRepoAssigned(str)
    THEN [status |-> "raised", error |-> "TypeError"]
    ELSE IF Len(Split(OwnerRepoText(str))) >= 2
    THEN [status |-> "returned",
          owner |-> Split(OwnerRepoText(str))[1],
          repo |-> ReplaceGit(Split(OwnerRepoText(str))[2])]
    ELSE [status |-> "raised", error |-> "Invalid GitHub repository URL format"]

\* What comes before the owner, owners, repository names and what follows.
UrlPrefixes ==
    { <<>>, <<104, 116, 116, 112, 115, 58, 47, 47, 103, 105, 116, 104, 117, 98, 46, 99, 111, 109, 47>>, <<104, 116, 116, 112, 58, 47, 47, 103, 105, 116, 104, 117, 98, 46, 99, 111, 109, 47>>,
      <<104, 116, 116, 112, 115, 58, 47, 47, 71, 105, 116, 72, 117, 98, 46, 99, 111, 109, 47>>, <<104, 116, 116, 112, 115, 58, 47, 47, 119, 119, 119, 46, 103, 105, 116, 104, 117, 98, 46, 99, 111, 109, 47>>,
      <<104, 116, 116, 112, 115, 58, 47, 47, 103, 105, 116, 108, 97, 98, 46, 99, 111, 109, 47>>, <<103, 105, 116, 64, 103, 105, 116, 104, 117, 98, 46, 99, 111, 109, 58>> }
Owners == { <<111, 99, 116, 111>>, <<97, 46, 103, 105, 116>> }
RepoNames ==
    { <<97, 112, 112>>, <<97, 112, 112, 46, 106, 115>>, <<108, 101, 103, 105, 116>>, <<97, 112, 112>> \o <<Backslash>> \o <<46, 103, 105, 116>> }
GitSuffixes == { <<>>, <<46, 103, 105, 116>> }
RECURSIVE Extras(_)
Extras(n) ==
    IF n = 0 THEN {<<>>}
    ELSE Extras(n - 1)
         \cup { e \o x : e \in Extras(n - 1), x \in { <<Slash>>, <<47, 116, 114, 101, 101>>, <<63, 116, 97, 98, 61, 49>> } }

RepoUrls ==
    { pre \o owner \o <<Slash>> \o name \o git \o extra :
         pre \in UrlPrefixes, owner \in Owners, name \in RepoNames,
         git \in GitSuffixes, extra \in Extras(MaxExtraSegments) }
    \cup { pre \o owner : pre \in UrlPrefixes, owner \in Owners }

InitRepoUrl ==
    /\ pc = "idle"
    /\ testType = "all"
    /\ reports = [s \in Stages |-> <<>>]
    /\ exec = [s \in Stages |-> NotRun]
    /\ results = NotRun
    /\ e2eResults = NotRun
    /\ perfResults = NotRun
    /\ apiResults = NotRun
    /\ clock = RunInstant
    /\ dir = EmptyDir
    /\ saved = <<>>
    /\ generated = NoReports
    /\ repo = [exists |-> FALSE, listable |-> FALSE, entries |-> <<>>]
    /\ risks = NotAnalyzed
    /\ contents = <<>>
    /\ structure = NotAnalyzed
    /\ languages = <<>>
    /\ frameworks = NotAnalyzed
    /\ testCases = NotAnalyzed
    /\ repoUrl \in RepoUrls
    /\ ownerRepo = NotAnalyzed
    /\ cli = NotAnalyzed

\* parseRepoUrl(repoUrl)
ParseRepoUrlCall ==
    /\ ownerRepo = NotAnalyzed
    /\ ownerRepo' = ParseRepoUrl(repoUrl)
    /\ UNCHANGED <<languages, frameworks, testCases, repoUrl, cli>>
    /\ UNCHANGED <<runnerVars, storeVars, analyzerVars>>

SpecRepoUrl == InitRepoUrl /\ [][ParseRepoUrlCall]_vars

(***************************************************************************)
(* The command actions of index.js: try { compute; persist } catch { log    *)
(* an error line; process.exit(1) }.  `cli` records one invocation:         *)
(*   phase    "started", "computed" (the computing step has returned) or    *)
(*            "exited"                                                       *)
(*   exit     the exit status ("none" while running)                        *)
(*   failed   the step whose error reached the action's catch, if any       *)
(*   log      the error-level log lines so far, each by who wrote it: a     *)
(*            "step" below the action, or the "action" itself               *)
(*   failure  error-level log lines written for the error that reached the  *)
(*            action's catch                                                *)
(*   before   the output files that were there when the command started     *)
(*   written  the output files written by the persisting step, in order     *)
(***************************************************************************)
Commands == {"analyze", "generate-tests", "analyze-risks", "run-tests", "generate-report"}

\* The files the persisting step of a command writes, in order.
OutputFiles(command) ==
    CASE command = "analyze" -> <<"analysis.json">>
      [] command = "generate-tests" ->
           <<"unitTests.json", "integrationTests.json", "e2eTests.json",
             "apiTests.json", "performanceTests.json", "securityTests.json",
             "all-tests.json">>
      [] command = "analyze-risks" -> <<"risks.json">>
      [] command = "run-tests" -> <<"test-results-<timestamp>.json">>
      [] command = "generate-report" -> <<>>

\* How the computing step can end: returned or thrown, and the error-level
\* lines the step itself logs on the way.
\*   analyze: parseRepoUrl throws ahead of the try (no line); an API call
\*     fails inside it (one line).
\*   generateTests: its catch logs one line.
\*   analyzeRisks: its catch logs one line; a check that swallows its error
\*     logs one line and the step returns.
\*   runTests: a stage that swallows its error logs one line; the stage
\*     whose result cannot be spread logs one, the catch of runTests another.
\*   generateReports: its catch logs one line, after that of a renderer.
ComputeOutcomes(command) ==
    CASE command = "analyze" ->
           { [ok |-> TRUE, lines |-> 0], [ok |-> FALSE, lines |-> 0],
             [ok |-> FALSE, lines |-> 1] }
      [] command = "generate-tests" ->
           { [ok |-> TRUE, lines |-> 0], [ok |-> FALSE, lines |-> 1] }
      [] command = "analyze-risks" ->
           { [ok |-> TRUE, lines |-> 0], [ok |-> TRUE, lines |-> 1],
             [ok |-> FALSE, lines |-> 1] }
      [] command = "run-tests" ->
           { [ok |-> TRUE, lines |-> 0], [ok |-> TRUE, lines |-> 1],
             [ok |-> TRUE, lines |-> 2], [ok |-> FALSE, lines |-> 2] }
      [] command = "generate-report" ->
           { [ok |-> TRUE, lines |-> 0], [ok |-> FALSE, lines |-> 1],
             [ok |-> FALSE, lines |-> 2] }

\* n error-level lines logged by the steps below the action.
StepLines(n) == [k \in 1..n |-> "step"]

\* The catch of an action that logs its line and lets the process go on.
CaughtAndReturned(st, step, lines) ==
    [st EXCEPT !.phase = "exited", !.exit = 0, !.failed = step,
               !.log = @ \o StepLines(lines) \o <<"action">>,
               !.failure = lines + 1]

\* The catch of an action, reached by an error of `step` for which the
\* steps below have logged `lines` error-level lines: logger.error(...),
\* process.exit(1).
Caught(st, step, lines) ==
    [st EXCEPT !.phase = "exited", !.exit = 1, !.failed = step,
               !.log = @ \o StepLines(lines) \o <<"action">>,
               !.failure = lines + 1]

\* The persisting step started although the computing step has thrown.
ComputedThenPersisted(st, outcome) ==
    IF outcome.ok
    THEN [st EXCEPT !.phase = "computed", !.log = @ \o StepLines(outcome.lines)]
    ELSE [Caught(st, "compute", outcome.lines) EXCEPT
            !.written = OutputFiles(st.command)]

\* The invocation after `await compute(...)`: on to the persisting step, or
\* into the catch of the action.
Computed(st, outcome) ==
    IF outcome.ok
    THEN [st EXCEPT !.phase = "computed", !.log = @ \o StepLines(outcome.lines)]
    ELSE Caught(st, "compute", outcome.lines)

\* The invocation after `await save(...)`, which wrote its first k files
\* and then returned (k is all of them) or threw, its catch logging a line.
Persisted(st, k) ==
    IF k = Len(OutputFiles(st.command))
    THEN [st EXCEPT !.phase = "exited", !.exit = 0,
                    !.written = OutputFiles(st.command)]
    ELSE [Caught(st, "persist", 1) EXCEPT
            !.written = SubSeq(OutputFiles(st.command), 1, k)]

InitCli ==
    /\ pc = "idle"
    /\ testType = "all"
    /\ reports = [s \in Stages |-> <<>>]
    /\ exec = [s \in Stages |-> NotRun]
    /\ results = NotRun
    /\ e2eResults = NotRun
    /\ perfResults = NotRun
    /\ apiResults = NotRun
    /\ clock = RunInstant
    /\ dir = EmptyDir
    /\ saved = <<>>
    /\ generated = NoReports
    /\ repo = [exists |-> FALSE, listable |-> FALSE, entries |-> <<>>]
    /\ risks = NotAnalyzed
    /\ contents = <<>>
    /\ structure = NotAnalyzed
    /\ languages = <<>>
    /\ frameworks = NotAnalyzed
    /\ testCases = NotAnalyzed
    /\ repoUrl = <<>>
    /\ ownerRepo = NotAnalyzed
    /\ \E command \in Commands :
         \E before \in SUBSET { OutputFiles(command)[k] : k \in DOMAIN OutputFiles(command) } :
            cli = [status |-> "invoked", command |-> command, phase |-> "started",
                   exit |-> "none", failed |-> "none", log |-> <<>>, failure |-> 0,
                   before |-> before, written |-> <<>>]

\* const x = await compute(...)
CliComputes ==
    /\ cli.phase = "started"
    /\ \E outcome \in ComputeOutcomes(cli.command) : cli' = Computed(cli, outcome)
    /\ UNCHANGED <<languages, frameworks, testCases, repoUrl, ownerRepo>>
    /\ UNCHANGED <<runnerVars, storeVars, analyzerVars>>

\* await save(x, options.output), and the return of the action
CliPersists ==
    /\ cli.phase = "computed"
    /\ \E k \in 0..Len(OutputFiles(cli.command)) : cli' = Persisted(cli, k)
    /\ UNCHANGED <<languages, frameworks, testCases, repoUrl, ownerRepo>>
    /\ UNCHANGED <<runnerVars, storeVars, analyzerVars>>

NextCli ==
    \/ CliComputes
    \/ CliPersists

SpecCli == InitCli /\ [][NextCli]_vars

(***************************************************************************)
(* Properties of the Result Aggregator.                                     *)
(***************************************************************************)
StageResult(s) == IF s = "e2e" THEN e2eResults ELSE perfResults

\* The runner of stage s exited with status 0 and printed its report: the
\* stage result was built by the formatting code of the try block.
FormattedStage(s) ==
    /\ exec[s].kind = "ended"
    /\ exec[s].exit = "ok"
    /\ exec[s].stdout = "json"

\* The runner of stage s failed and left nothing that parses.
FailedWithoutReport(s) ==
    /\ exec[s].kind = "ended"
    /\ exec[s].exit = "fail"
    /\ exec[s].stdout \in {"garbage", "none"}

\* The specs of a raw report in document order.
FlatSpecs(rep) == Concat([i \in DOMAIN rep |-> rep[i].specs])

RECURSIVE SumOver(_, _)
SumOver(f, S) ==
    IF S = {} THEN 0
    ELSE LET x == CHOOSE y \in S : TRUE IN f[x] + SumOver(f, S \ {x})

TotalIsSum(summary) ==
    summary.total = summary.passed + summary.failed + summary.skipped

NumWithStatus(tests, st) == Cardinality({k \in DOMAIN tests : tests[k].status = st})

\* C1: every summary the aggregator produces (each stage's and the combined
\* one) has total = passed + failed + skipped.
C1_TotalIsSum ==
    /\ pc # "idle" => TotalIsSum(results.summary)
    /\ \A s \in Stages :
         StageResult(s).kind = "summary" => TotalIsSum(StageResult(s).summary)
    /\ apiResults.kind = "summary" => TotalIsSum(apiResults.summary)

\* C2: runTests never throws, whatever way a runner subprocess ends.
C2_RunTestsNeverThrows == pc # "raised"

\* C3: the status of each formatted test is passed iff all attempts of its
\* spec passed, else failed iff some attempt failed, else skipped; a failed
\* attempt always forces failed.
C3_StatusDerivation ==
    \A s \in Stages :
      FormattedStage(s) =>
        LET specs == FlatSpecs(reports[s])
            tests == StageResult(s).tests
        IN  /\ Len(tests) = Len(specs)
            /\ \A k \in DOMAIN specs :
                 LET rs == specs[k].results
                     allPassed == \A i \in DOMAIN rs : rs[i].status = "passed"
                     anyFailed == \E i \in DOMAIN rs : rs[i].status = "failed"
                 IN  /\ tests[k].status = "passed" <=> allPassed
                     /\ tests[k].status = "failed" <=> (~allPassed /\ anyFailed)
                     /\ tests[k].status = "skipped" <=> (~allPassed /\ ~anyFailed)
                     /\ anyFailed => tests[k].status = "failed"

\* A formatted spec that failed although one of its attempts passed.
C3_Witness ==
    \E s \in Stages :
      /\ FormattedStage(s)
      /\ \E k \in DOMAIN FlatSpecs(reports[s]) :
           LET rs == FlatSpecs(reports[s])[k].results
           IN  /\ Len(rs) >= 2
               /\ rs[Len(rs)].status = "passed"
               /\ \E i \in DOMAIN rs : rs[i].status = "failed"
               /\ StageResult(s).tests[k].status = "failed"

\* C4: in a formatted summary, passed / failed / skipped are the numbers of
\* tests with that status and total is the number of tests.
C4_CountsMatchTally ==
    \A s \in Stages :
      FormattedStage(s) =>
        LET r == StageResult(s)
        IN  /\ r.summary.total = Len(r.tests)
            /\ r.summary.passed = NumWithStatus(r.tests, "passed")
            /\ r.summary.failed = NumWithStatus(r.tests, "failed")
            /\ r.summary.skipped = NumWithStatus(r.tests, "skipped")

\* C5: the duration of each formatted test is the sum of the durations of
\* all attempts of its spec; attempts [failed 100, passed 50] give a failed
\* test of duration 150.
C5_DurationIsSumOfAttempts ==
    \A s \in Stages :
      FormattedStage(s) =>
        LET specs == FlatSpecs(reports[s])
            tests == StageResult(s).tests
        IN  \A k \in DOMAIN specs :
              LET rs == specs[k].results
              IN  /\ k \in DOMAIN tests
                  /\ tests[k].duration =
                       SumOver([i \in DOMAIN rs |-> rs[i].duration], DOMAIN rs)
                  /\ ( /\ Len(rs) = 2
                       /\ rs[1].status = "failed" /\ rs[1].duration = 100
                       /\ rs[2].status = "passed" /\ rs[2].duration = 50 )
                     => (tests[k].status = "failed" /\ tests[k].duration = 150)

\* Scenario C has been formatted.
C5_Witness ==
    \E s \in Stages :
      /\ FormattedStage(s)
      /\ \E k \in DOMAIN FlatSpecs(reports[s]) :
           LET rs == FlatSpecs(reports[s])[k].results
           IN  /\ Len(rs) = 2
               /\ rs[1].status = "failed" /\ rs[1].duration = 100
               /\ rs[2].status = "passed" /\ rs[2].duration = 50
               /\ StageResult(s).tests[k].duration = 150

\* C6: a stage whose runner failed without a parseable report returns the
\* zeroed summary, no tests and the failure message.
C6_ZeroedOnFailure ==
    \A s \in Stages :
      FailedWithoutReport(s) =>
        LET r == StageResult(s)
        IN  /\ r.kind = "summary"
            /\ r.summary = [total |-> 0, passed |-> 0, failed |-> 0,
                            skipped |-> 0, duration |-> 0]
            /\ r.tests = <<>>
            /\ r.error = "Command failed"

\* Both stages of one run failed without a report, after the runner had
\* already reported a spec.
C6_Witness ==
    /\ \A s \in Stages : FailedWithoutReport(s)
    /\ FlatSpecs(reports["e2e"]) # <<>>
    /\ exec["e2e"].stdout # exec["performance"].stdout

(***************************************************************************)
(* Properties of the results directory and of the Report Renderer.          *)
(***************************************************************************)
\* A generateReports call has been made since the last save.
Generated == generated.status # "none"

\* The file the last generateReports call read.
ReadFile == generated.read[1]

\* Name f comes after every other name of S in lexicographic order.
Greatest(f, S) == f \in S /\ \A g \in S \ {f} : SortsBefore(g, f)

\* C7: generateReports reads exactly one file, the lexicographically
\* greatest name among the entries that start with 'test-results-' and end
\* with '.json' (none when there is no such entry, and then it throws), and
\* its outcome is what it would be were that file the only entry.
C7_ReadsGreatestResultFile ==
    Generated =>
      IF ResultFiles(DOMAIN dir) = {}
      THEN generated.read = <<>> /\ generated.status = "raised"
      ELSE /\ Len(generated.read) = 1
           /\ Greatest(ReadFile, ResultFiles(DOMAIN dir))
           /\ generated = GenerateReportsOutcome(
                              [f \in {ReadFile} |-> dir[ReadFile]],
                              generated.format, clock, "none")

\* C7 witness (Scenario D): format json, two timestamped result files next
\* to entries that are no result files; the greater one was read.
C7_Witness ==
    /\ generated.status = "returned"
    /\ generated.format = "json"
    /\ Len(saved) = 2
    /\ saved[1].name # saved[2].name
    /\ BackupFile \in DOMAIN dir
    /\ AnalysisFile \in DOMAIN dir
    /\ ResultFiles(DOMAIN dir) = {saved[1].name, saved[2].name}
    /\ SortsBefore(saved[1].name, ReadFile)

\* The saves so far were made at strictly increasing instants.
StrictlyIncreasing ==
    \A i \in 1..(Len(saved) - 1) : Before(saved[i].at, saved[i + 1].at)

\* Every result file of the directory was written by saveResults.
OnlySavedResultFiles ==
    ResultFiles(DOMAIN dir) \subseteq {saved[i].name : i \in DOMAIN saved}

MostRecentSave == saved[Len(saved)]

\* C8: after saves at strictly increasing instants into a directory whose
\* result files all come from saveResults, generateReports selects the file
\* of the most recent save, and that file holds what that save wrote.
C8_LatestIsMostRecentSave ==
    (Generated /\ saved # <<>> /\ StrictlyIncreasing /\ OnlySavedResultFiles) =>
      /\ generated.read = <<MostRecentSave.name>>
      /\ dir[ReadFile] = JsonStringify(ResultsObject(MostRecentSave.results))

\* C8 witness: two saves 1 ms apart, the second in the next calendar day
\* (1999-12-31T23:59:59.999Z, then 2000-01-01T00:00:00.000Z), and the second
\* save's file was read.
C8_Witness ==
    /\ Generated
    /\ Len(saved) = 2
    /\ StrictlyIncreasing
    /\ OnlySavedResultFiles
    /\ saved[1].at.day < saved[2].at.day
    /\ saved[2].at.ms = 0
    /\ saved[1].results # saved[2].results
    /\ generated.read = <<saved[2].name>>

\* The file read was written by saveResults.
ReadFileWasSaved == \E i \in DOMAIN saved : saved[i].name = ReadFile

\* The RunSummary of the last save into the file read.
ReadSummary ==
    saved[CHOOSE i \in DOMAIN saved :
            /\ saved[i].name = ReadFile
            /\ \A j \in DOMAIN saved : j > i => saved[j].name # ReadFile].results

\* env is the envelope { metadata: { generated, title, format }, results }
\* whose results carry the counts and the TestOutcome list of res.
IsEnvelopeOf(env, res) ==
    /\ env.t = "obj"
    /\ env.keys = <<Key("metadata"), Key("results")>>
    /\ Get(env, Key("metadata")).t = "obj"
    /\ Get(env, Key("metadata")).keys =
         <<Key("generated"), Key("title"), Key("format")>>
    /\ Get(Get(env, Key("results")), Key("summary")).t = "obj"
    /\ \A c \in {"total", "passed", "failed", "skipped"} :
         Get(Get(Get(env, Key("results")), Key("summary")), Key(c))
           = JNum(res.summary[c])
    /\ Get(Get(env, Key("results")), Key("tests")).t = "arr"
    /\ Len(Get(Get(env, Key("results")), Key("tests")).items) = Len(res.tests)
    /\ \A k \in DOMAIN res.tests :
         Get(Get(env, Key("results")), Key("tests")).items[k]
           = TestObject(res.tests[k])

ParsesToEnvelopeOf(parsed, res) == parsed.ok /\ IsEnvelopeOf(parsed.v, res)

\* C9: a RunSummary written by saveResults and read back by generateReports
\* with format json (or all) is reported, in an envelope of the shape
\* { metadata: { generated, title, format }, results }, with identical
\* total/passed/failed/skipped and an identical TestOutcome list in order.
C9_JsonRoundTrip ==
    (Generated /\ Wants(generated.format, "json") /\ generated.read # <<>>
       /\ ReadFileWasSaved) =>
      /\ generated.status = "returned"
      /\ ParsesToEnvelopeOf(JsonParse(generated.json), ReadSummary)

\* C9 witness: the summary read back has a failed test whose error message
\* needs escaping and a skipped test without one.
C9_Witness ==
    /\ generated.status = "returned"
    /\ generated.format = "json"
    /\ generated.read # <<>>
    /\ ReadFileWasSaved
    /\ Len(ReadSummary.tests) = 2
    /\ ReadSummary.tests[1].error = <<69, 34, 10, 120>>
    /\ ReadSummary.tests[2].error = Null
    /\ ReadSummary.summary.failed = 1

\* The number a text of digits stands for, the decimal point left out.
RECURSIVE DigitsValue(_, _)
DigitsValue(str, n) ==
    IF str = <<>> THEN n
    ELSE DigitsValue(Tail(str), IF Head(str) = 46 THEN n ELSE 10 * n + Head(str) - 48)

\* str is one or more digits, a point, two digits.
TwoDecimals(str) ==
    /\ Len(str) >= 4
    /\ str[Len(str) - 2] = 46
    /\ \A i \in DOMAIN str : i # Len(str) - 2 => str[i] \in 48..57

\* C10: the pass rate of the HTML report is '0.00' when total is 0,
\* otherwise passed/total*100 to the nearest hundredth with exactly two
\* decimals ('75.00' for total 4, passed 3); it lies between 0.00 and
\* 100.00, and rendering never fails.
C10_PassRate ==
    (Generated /\ Wants(generated.format, "html")) =>
      /\ generated.status = "returned"
      /\ TwoDecimals(generated.html.passRate)
      /\ DigitsValue(generated.html.passRate, 0) \in 0..10000
      /\ MostRecentSave.results.summary.total = 0
           => generated.html.passRate = <<48, 46, 48, 48>>
      /\ (MostRecentSave.results.summary.total = 4
            /\ MostRecentSave.results.summary.passed = 3)
           => generated.html.passRate = <<55, 53, 46, 48, 48>>
      /\ MostRecentSave.results.summary.total > 0
           => \A h \in {DigitsValue(generated.html.passRate, 0)} :
                 \A d \in {h * MostRecentSave.results.summary.total
                             - 10000 * MostRecentSave.results.summary.passed} :
                    /\ 2 * d <= MostRecentSave.results.summary.total
                    /\ 2 * d >= 0 - MostRecentSave.results.summary.total

\* C10 witness: the summary with total 4 and passed 3 was rendered as 75.00.
C10_Witness ==
    /\ generated.status = "returned"
    /\ generated.format = "html"
    /\ MostRecentSave.results.summary.total = 4
    /\ MostRecentSave.results.summary.passed = 3
    /\ generated.html.passRate = <<55, 53, 46, 48, 48>>

(***************************************************************************)
(* Properties of a generateReports call that renders one saved run.         *)
(***************************************************************************)
\* The write of generator k was the one rejected in the last call.
WriteFailed(k) == generated.error = WriteError(k)

\* C11: with format 'all', a failure while generating one format does not
\* prevent the other formats from being generated and returned: the call
\* returns, and every format whose write did not fail is among its reports.
C11_FormatsIndependent ==
    (Generated /\ generated.format = "all") =>
      /\ generated.status = "returned"
      /\ \A k \in {"html", "pdf", "json"} :
           ~WriteFailed(k) => k \in generated.keys

IsTestRow(row) == row.kind = "test"

\* The row after the i-th row of the table is an error block.
ErrorBlockFollows(rows, i) == i + 1 <= Len(rows) /\ rows[i + 1].kind = "error"

\* C12: the HTML table has one row per TestOutcome in list order, and a row
\* is immediately followed by an error block if its status is failed, and is
\* not if its status is passed or skipped.
C12_ErrorBlockAfterFailedRows ==
    (generated.status = "returned" /\ Wants(generated.format, "html")) =>
      /\ Len(SelectSeq(generated.html.rows, IsTestRow)) = Len(MostRecentSave.results.tests)
      /\ \A k \in DOMAIN MostRecentSave.results.tests :
           SelectSeq(generated.html.rows, IsTestRow)[k].name
             = MostRecentSave.results.tests[k].name
      /\ \A i \in DOMAIN generated.html.rows :
           generated.html.rows[i].kind = "test" =>
             /\ generated.html.rows[i].status = ToUpperCase(StatusText("failed"))
                  => ErrorBlockFollows(generated.html.rows, i)
             /\ generated.html.rows[i].status \in
                    {ToUpperCase(StatusText("passed")), ToUpperCase(StatusText("skipped"))}
                  => ~ErrorBlockFollows(generated.html.rows, i)

(***************************************************************************)
(* Properties of the Risk Checklist Evaluator.                              *)
(***************************************************************************)
\* Some finding of the list has the given type (and level).
HasFinding(found, type) == \E i \in DOMAIN found : found[i].type = type
HasFindingAt(found, type, level) ==
    \E i \in DOMAIN found : found[i].type = type /\ found[i].level = level

\* A filesystem call of the security pass is rejected: readdir of the root,
\* stat of an entry, or readFile of a file scanned for secrets.
SecurityCheckFails ==
    \/ ~repo.listable
    \/ \E i \in DOMAIN repo.entries : repo.entries[i].statFails
    \/ \E i \in DOMAIN repo.entries :
          /\ repo.entries[i].kind = "file"
          /\ RegexTest(CodePattern, repo.entries[i].name)
          /\ repo.entries[i].readFails

\* C13: for a path that exists, a failing filesystem check of the security
\* pass does not abort analyzeRisks: a RiskReport is returned, the failure
\* is reported as an 'analysis_error' finding of level medium, and the
\* other passes still end with their own findings.
C13_FailedCheckIsReported ==
    (risks # NotAnalyzed /\ repo.exists /\ SecurityCheckFails) =>
      /\ risks.status = "returned"
      /\ HasFindingAt(risks.securityRisks, "analysis_error", Medium)
      /\ HasFinding(risks.codeQualityRisks, "web_accessibility")
      /\ HasFinding(risks.configurationRisks, "browser_compatibility")

\* The last finding of a list has the given type and level.
EndsWith1(found, type, level) ==
    /\ Len(found) >= 1
    /\ found[Len(found)].type = type
    /\ found[Len(found)].level = level

\* C14: for every existing path the RiskReport is returned with
\* securityRisks ending in login_security, checkout_security (both high),
\* codeQualityRisks ending in web_accessibility (medium), configurationRisks
\* ending in browser_compatibility (medium), and totalRisks >= 3.
C14_DemoFindingsAlwaysPresent ==
    (risks # NotAnalyzed /\ repo.exists) =>
      /\ risks.status = "returned"
      /\ Len(risks.securityRisks) >= 2
      /\ risks.securityRisks[Len(risks.securityRisks) - 1].type = "login_security"
      /\ risks.securityRisks[Len(risks.securityRisks) - 1].level = High
      /\ EndsWith1(risks.securityRisks, "checkout_security", High)
      /\ EndsWith1(risks.codeQualityRisks, "web_accessibility", Medium)
      /\ EndsWith1(risks.configurationRisks, "browser_compatibility", Medium)
      /\ risks.summary.totalRisks >= 3

\* C14 witness (Scenario B): a root with entries but no .env, no
\* package.json and no auth directory was analyzed.
C14_Witness ==
    /\ risks.status = "returned"
    /\ repo.entries # <<>>
    /\ \A i \in DOMAIN repo.entries :
         repo.entries[i].name \notin {DotEnv, PackageJson, AuthDir, AuthenticationDir}
    /\ ~HasFinding(risks.securityRisks, "secret_exposure")
    /\ Len(risks.securityRisks) = 2
    /\ risks.summary.totalRisks >= 3

\* Every filesystem call of the security pass succeeds.
SecurityChecksSucceed == repo.exists /\ ~SecurityCheckFails

\* The files listed by the finding of the given type (none without it).
FilesOf(found, type) ==
    IF HasFinding(found, type)
    THEN found[CHOOSE i \in DOMAIN found : found[i].type = type].files
    ELSE <<>>

\* C15: the security pass emits a high 'secret_exposure' finding if and only
\* if a file named '.env' is at the root, and the finding lists only '.env'.
C15_SecretExposureIffDotEnv ==
    (risks # NotAnalyzed /\ SecurityChecksSucceed) =>
      /\ HasFinding(risks.securityRisks, "secret_exposure")
           <=> \E i \in DOMAIN repo.entries :
                  repo.entries[i].kind = "file" /\ repo.entries[i].name = DotEnv
      /\ HasFinding(risks.securityRisks, "secret_exposure")
           => HasFindingAt(risks.securityRisks, "secret_exposure", High)
      /\ \A k \in DOMAIN FilesOf(risks.securityRisks, "secret_exposure") :
           FilesOf(risks.securityRisks, "secret_exposure")[k] = DotEnv

\* The root files whose names end in one of the scanned extensions.
IsCandidate(entry) ==
    /\ entry.kind = "file"
    /\ \E ext \in { <<46, 106, 115>>, <<46, 112, 121>>, <<46, 106, 97, 118, 97>>,
                    <<46, 114, 98>>, <<46, 99, 111, 110, 102, 105, 103>> } :
          EndsWith(entry.name, ext)

\* A candidate that can be read and whose text holds a secret word.
IsSecretFile(entry) ==
    IsCandidate(entry) /\ ~entry.readFails /\ HasSecret(entry.content)

\* C16: 'hardcoded_secrets' lists exactly the candidate files whose text
\* matches a secret pattern, once each and in scan order, whatever happens
\* when another file is scanned (a read error included).
C16_AllSecretFilesListed ==
    (risks # NotAnalyzed /\ repo.exists /\ repo.listable
       /\ \A i \in DOMAIN repo.entries : ~repo.entries[i].statFails) =>
      FilesOf(risks.securityRisks, "hardcoded_secrets")
        = Paths(SelectSeq(repo.entries, IsSecretFile))

\* The findings of the three lists together whose lower-cased level is l.
NumAtLevel(l) ==
    Cardinality({i \in DOMAIN risks.securityRisks :
                   ToLowerCase(risks.securityRisks[i].level) = l})
    + Cardinality({i \in DOMAIN risks.codeQualityRisks :
                     ToLowerCase(risks.codeQualityRisks[i].level) = l})
    + Cardinality({i \in DOMAIN risks.configurationRisks :
                     ToLowerCase(risks.configurationRisks[i].level) = l})

\* C17: highRisks, mediumRisks and lowRisks are the numbers of findings of
\* the three lists at that level, totalRisks is the combined length, and
\* the three counts add up to totalRisks.
C17_SummaryCountsByLevel ==
    risks.status = "returned" =>
      /\ risks.summary.highRisks = NumAtLevel(High)
      /\ risks.summary.mediumRisks = NumAtLevel(Medium)
      /\ risks.summary.lowRisks = NumAtLevel(Low)
      /\ risks.summary.totalRisks =
           Len(risks.securityRisks) + Len(risks.codeQualityRisks)
             + Len(risks.configurationRisks)
      /\ risks.summary.highRisks + risks.summary.mediumRisks
           + risks.summary.lowRisks = risks.summary.totalRisks

\* C17 witness: a report with conditional findings at all three levels.
C17_Witness ==
    /\ risks.status = "returned"
    /\ HasFinding(risks.securityRisks, "secret_exposure")
    /\ HasFinding(risks.securityRisks, "dependency_check")
    /\ HasFinding(risks.configurationRisks, "no_package_lock")
    /\ risks.summary.highRisks = 3
    /\ risks.summary.mediumRisks = 4
    /\ risks.summary.lowRisks = 3

(***************************************************************************)
(* Properties of the Structure Classifier.                                  *)
(***************************************************************************)
\* The package manager a root file of that exact name stands for.
ManagerNamed(name) ==
    CASE name = <<112, 97, 99, 107, 97, 103, 101, 46, 106, 115, 111, 110>> -> <<"npm">>
      [] name = <<121, 97, 114, 110, 46, 108, 111, 99, 107>> -> <<"yarn">>
      [] name = <<112, 110, 112, 109, 45, 108, 111, 99, 107, 46, 121, 97, 109, 108>> -> <<"pnpm">>
      [] name = <<71, 101, 109, 102, 105, 108, 101>> -> <<"bundler">>
      [] name \in { <<114, 101, 113, 117, 105, 114, 101, 109, 101, 110, 116, 115, 46, 116, 120, 116>>, <<80, 105, 112, 102, 105, 108, 101>> } -> <<"pip">>
      [] name = <<103, 111, 46, 109, 111, 100>> -> <<"go">>
      [] OTHER -> <<>>

\* One identifier per file item with such a name, in the order of items.
RECURSIVE ManagersIn(_)
ManagersIn(items) ==
    IF items = <<>> THEN <<>>
    ELSE (IF Head(items).type = "file" THEN ManagerNamed(Head(items).name) ELSE <<>>)
         \o ManagersIn(Tail(items))

\* C18: packageManagers holds, in encounter order and without
\* deduplication, one identifier per root file named package.json (npm),
\* yarn.lock (yarn), pnpm-lock.yaml (pnpm), Gemfile (bundler),
\* requirements.txt or Pipfile (pip), go.mod (go), and nothing else; the
\* root [package.json, yarn.lock, tests/] gives hasTests and ['npm','yarn'].
C18_PackageManagersInOrder ==
    structure.status = "returned" =>
      /\ structure.packageManagers = ManagersIn(contents)
      /\ contents = << Item("file", <<112, 97, 99, 107, 97, 103, 101, 46, 106, 115, 111, 110>>), Item("file", <<121, 97, 114, 110, 46, 108, 111, 99, 107>>),
                       Item("dir", <<116, 101, 115, 116, 115>>) >>
           => structure.hasTests /\ structure.packageManagers = <<"npm", "yarn">>

\* C18 witness (Scenario A): the root [package.json, yarn.lock, tests/].
C18_Witness ==
    /\ structure.status = "returned"
    /\ contents = << Item("file", <<112, 97, 99, 107, 97, 103, 101, 46, 106, 115, 111, 110>>), Item("file", <<121, 97, 114, 110, 46, 108, 111, 99, 107>>),
                     Item("dir", <<116, 101, 115, 116, 115>>) >>
    /\ structure.hasTests
    /\ structure.packageManagers = <<"npm", "yarn">>

\* The permutations of the indices of a listing of each length.
Orders == [n \in 0..MaxItems |-> Permutations(1..n)]

\* The items in the order given by the permutation p of their indices.
Permuted(items, p) == [i \in DOMAIN items |-> items[p[i]]]

IsConfigItem(item) == item.type = "file" /\ IsConfigFile(item.name)

Names(items) == [i \in DOMAIN items |-> items[i].name]

IsFileItem(item) == item.type = "file"

\* The outcome expected for the permuted items: the flags of the outcome at
\* hand and the matching entries in the order of the permuted items.
AgreesUpToOrder(outcome, items) ==
    outcome = [status |-> "returned",
               rootFiles |-> Names(SelectSeq(items, IsFileItem)),
               hasTests |-> structure.hasTests,
               hasDocs |-> structure.hasDocs,
               hasCI |-> structure.hasCI,
               configFiles |-> Names(SelectSeq(items, IsConfigItem)),
               packageManagers |-> ManagersIn(items)]

\* C19: every permutation of the items gives the same hasTests, hasDocs and
\* hasCI, while its configFiles and packageManagers are the matching items
\* in the order of the permuted input, duplicates kept.
C19_FlagsOrderIndependent ==
    structure.status = "returned" =>
      \A p \in Orders[Len(contents)] :
         AgreesUpToOrder(AnalyzeStructureOf(Permuted(contents, p)), Permuted(contents, p))

\* C19 witness: a tests directory listed before a directory that sets no
\* flag, and the same config file listed twice.
C19_Witness ==
    /\ structure.status = "returned"
    /\ Len(contents) = 3
    /\ contents[1] = Item("dir", <<116, 101, 115, 116, 115>>)
    /\ contents[2] = Item("dir", <<109, 121, 116, 101, 115, 116, 115>>)
    /\ contents[3] = Item("file", <<97, 112, 112, 46, 99, 111, 110, 102, 105, 103, 46, 106, 115>>)
    /\ structure.hasTests
    /\ structure.configFiles = << <<97, 112, 112, 46, 99, 111, 110, 102, 105, 103, 46, 106, 115>> >>

\* Some directory item has a lower-cased name in the list.
HasDirectoryNamed(list) ==
    \E i \in DOMAIN contents :
       contents[i].type = "dir" /\ ToLowerCase(contents[i].name) \in list

\* The name ends in .json, .yml, .yaml or .config.js, or is .env.example.
HasConfigName(name) ==
    \/ \E suf \in { <<46, 106, 115, 111, 110>>, <<46, 121, 109, 108>>, <<46, 121, 97, 109, 108>>, <<46, 99, 111, 110, 102, 105, 103, 46, 106, 115>> } :
          Len(name) >= Len(suf) /\ SubSeq(name, Len(name) - Len(suf) + 1, Len(name)) = suf
    \/ name = <<46, 101, 110, 118, 46, 101, 120, 97, 109, 112, 108, 101>>

IsFileWithConfigName(item) == item.type = "file" /\ HasConfigName(item.name)

\* C20: hasTests, hasDocs and hasCI hold exactly when some directory has a
\* lower-cased name equal to a member of the tests, docs or CI list (files
\* and substring matches never count), and configFiles holds exactly the
\* files whose name ends in .json, .yml, .yaml or .config.js or is
\* .env.example.
C20_FlagsAndConfigFiles ==
    structure.status = "returned" =>
      /\ structure.hasTests <=>
           HasDirectoryNamed({ <<116, 101, 115, 116>>, <<116, 101, 115, 116, 115>>, <<95, 95, 116, 101, 115, 116, 115, 95, 95>>, <<115, 112, 101, 99>> })
      /\ structure.hasDocs <=>
           HasDirectoryNamed({ <<100, 111, 99>>, <<100, 111, 99, 115>>, <<100, 111, 99, 117, 109, 101, 110, 116, 97, 116, 105, 111, 110>> })
      /\ structure.hasCI <=>
           HasDirectoryNamed({ <<46, 103, 105, 116, 104, 117, 98>>, <<46, 103, 105, 116, 108, 97, 98>>, <<99, 105>>, <<46, 99, 105, 114, 99, 108, 101, 99, 105>> })
      /\ structure.configFiles = Names(SelectSeq(contents, IsFileWithConfigName))

\* C20 witness: a file named tests, a directory mytests and a directory
\* Docs: only hasDocs is set.
C20_Witness ==
    /\ structure.status = "returned"
    /\ \E i \in DOMAIN contents : contents[i] = Item("file", <<116, 101, 115, 116, 115>>)
    /\ \E i \in DOMAIN contents : contents[i] = Item("dir", <<109, 121, 116, 101, 115, 116, 115>>)
    /\ \E i \in DOMAIN contents : contents[i] = Item("dir", <<68, 111, 99, 115>>)
    /\ ~structure.hasTests
    /\ structure.hasDocs
    /\ ~structure.hasCI

(***************************************************************************)
(* Properties of the Framework Detector.                                    *)
(***************************************************************************)
Vocabulary == {"Next.js", "Nuxt.js", "Angular", "Remix", "Node.js",
               "Django", "Flask", "FastAPI"}

\* C21: detectFrameworks returns, for every structure summary and every
\* language mapping (the empty one included), an object with exactly the
\* keys javascript, python, ruby, java, golang and other, each an array.
C21_AllSixBuckets ==
    structure # NotAnalyzed =>
      /\ DOMAIN frameworks = {"javascript", "python", "ruby", "java", "golang", "other"}
      /\ \A k \in DOMAIN frameworks :
            /\ DOMAIN frameworks[k] = 1..Len(frameworks[k])
            /\ \A n \in DOMAIN frameworks[k] : frameworks[k][n] \in Vocabulary

\* C21 witness: the empty language mapping over a root with a framework
\* config file and a package manager file; every bucket is empty.
C21_Witness ==
    /\ structure # NotAnalyzed
    /\ DOMAIN languages = {}
    /\ contents = << Item("file", <<110, 101, 120, 116, 46, 99, 111, 110, 102, 105, 103, 46, 106, 115>>), Item("file", PackageJson) >>
    /\ \A k \in DOMAIN frameworks : frameworks[k] = <<>>

\* The four JS frameworks with their config files, in the declared order.
Chain ==
    << [file |-> <<110, 101, 120, 116, 46, 99, 111, 110, 102, 105, 103, 46, 106, 115>>, name |-> "Next.js"],
       [file |-> <<110, 117, 120, 116, 46, 99, 111, 110, 102, 105, 103, 46, 106, 115>>, name |-> "Nuxt.js"],
       [file |-> <<97, 110, 103, 117, 108, 97, 114, 46, 106, 115, 111, 110>>, name |-> "Angular"],
       [file |-> <<114, 101, 109, 105, 120, 46, 99, 111, 110, 102, 105, 103, 46, 106, 115>>, name |-> "Remix"] >>

InConfigFiles(k) ==
    \E n \in DOMAIN structure.configFiles : structure.configFiles[n] = Chain[k].file

InBucket(name) ==
    \E n \in DOMAIN frameworks.javascript : frameworks.javascript[n] = name

\* The k-th framework of the chain is the first whose config file is present.
IsFirstPresent(k) ==
    InConfigFiles(k) /\ \A j \in 1..(k - 1) : ~InConfigFiles(j)

\* C22: the javascript bucket holds at most one of Next.js, Nuxt.js, Angular
\* and Remix, and the one it holds is the first in that order whose config
\* file is in configFiles, whatever the order of configFiles and however
\* many of the config files are there; with JavaScript or TypeScript among
\* the languages that first one is in the bucket, exactly once.
C22_PriorityChain ==
    structure # NotAnalyzed =>
      /\ Cardinality({ n \in DOMAIN frameworks.javascript :
                          \E k \in DOMAIN Chain : frameworks.javascript[n] = Chain[k].name }) <= 1
      /\ \A k \in DOMAIN Chain : InBucket(Chain[k].name) => IsFirstPresent(k)
      /\ \A k \in DOMAIN Chain :
            /\ IsFirstPresent(k)
            /\ \E l \in {"JavaScript", "TypeScript"} :
                   l \in DOMAIN languages /\ languages[l] # 0
            => InBucket(Chain[k].name)

\* C22 witness: remix.config.js listed before nuxt.config.js in a
\* JavaScript repository; the bucket holds Nuxt.js and not Remix.
C22_Witness ==
    /\ structure # NotAnalyzed
    /\ structure.configFiles = << <<114, 101, 109, 105, 120, 46, 99, 111, 110, 102, 105, 103, 46, 106, 115>>, <<110, 117, 120, 116, 46, 99, 111, 110, 102, 105, 103, 46, 106, 115>> >>
    /\ frameworks.javascript = <<"Nuxt.js">>

HasJsPackageManager ==
    \E n \in DOMAIN structure.packageManagers :
       structure.packageManagers[n] \in {"npm", "yarn", "pnpm"}

\* C23 (as stated): whenever packageManagers contains 'npm', 'yarn' or
\* 'pnpm', 'Node.js' is in the javascript bucket.
C23_NodeTagWithPackageManager ==
    structure # NotAnalyzed /\ HasJsPackageManager => InBucket("Node.js")

\* C23 (amended): whenever JavaScript or TypeScript is among the languages
\* with a non-zero byte count and packageManagers contains 'npm', 'yarn' or
\* 'pnpm', 'Node.js' is the last entry of the javascript bucket, whether or
\* not a framework config file matched; without such a language the bucket
\* is empty.
C23_NodeTagInJavascriptRepository ==
    structure # NotAnalyzed =>
      IF \E l \in {"JavaScript", "TypeScript"} :
            l \in DOMAIN languages /\ languages[l] # 0
      THEN HasJsPackageManager =>
             /\ frameworks.javascript # <<>>
             /\ frameworks.javascript[Len(frameworks.javascript)] = "Node.js"
      ELSE frameworks.javascript = <<>>

\* C23 witness: a TypeScript repository with pnpm-lock.yaml and
\* angular.json: the bucket is ['Angular', 'Node.js'].
C23_Witness ==
    /\ structure # NotAnalyzed
    /\ structure.packageManagers = <<"pnpm">>
    /\ frameworks.javascript = <<"Angular", "Node.js">>

(***************************************************************************)
(* Properties of the Test Descriptor Generator.                             *)
(***************************************************************************)
Categories ==
    {"unitTests", "integrationTests", "e2eTests", "apiTests",
     "performanceTests", "securityTests"}

\* Name and type of each category's base descriptor.
BaseName(category) ==
    CASE category = "unitTests" -> "Basic Unit Tests"
      [] category = "integrationTests" -> "Basic Integration Tests"
      [] category = "e2eTests" -> "User Flow Tests"
      [] category = "apiTests" -> "API Endpoint Tests"
      [] category = "performanceTests" -> "Load Time Tests"
      [] category = "securityTests" -> "Authentication Tests"

BaseType(category) ==
    CASE category = "unitTests" -> "unit"
      [] category = "integrationTests" -> "integration"
      [] category = "e2eTests" -> "e2e"
      [] category = "apiTests" -> "api"
      [] category = "performanceTests" -> "performance"
      [] category = "securityTests" -> "security"

SameFixedArrays(cases, other) ==
    /\ other.status = "returned"
    /\ other.cases.e2eTests = cases.e2eTests
    /\ other.cases.apiTests = cases.apiTests
    /\ other.cases.performanceTests = cases.performanceTests
    /\ other.cases.securityTests = cases.securityTests

\* Every descriptor after the first points at the demo site.
DemoAfterBase(array) ==
    \A n \in 2..Len(array) :
       /\ SubSeq(array[n].name, 1, 9) = "SauceDemo"
       /\ array[n].url \in {"https://www.saucedemo.com/", "https://www.saucedemo.com/api"}

\* C25: e2eTests, apiTests, performanceTests and securityTests do not depend
\* on the analysis: they are the arrays generated for any other languages
\* and frameworks, of 4, 2, 2 and 2 entries, the base descriptor followed by
\* demo-site descriptors.
C25_FixedArraysIndependentOfInput ==
    testCases # NotAnalyzed /\ testCases.status = "returned" =>
      /\ Len(testCases.cases.e2eTests) = 4
      /\ Len(testCases.cases.apiTests) = 2
      /\ Len(testCases.cases.performanceTests) = 2
      /\ Len(testCases.cases.securityTests) = 2
      /\ \A k \in {"e2eTests", "apiTests", "performanceTests", "securityTests"} :
            DemoAfterBase(testCases.cases[k])
      /\ \A langs \in LanguageMaps, fw \in WrittenFrameworks :
            SameFixedArrays(testCases.cases,
                GenerateTestsOutcome("json", [languages |-> langs, frameworks |-> fw]))

\* C25 witness: test cases generated for a Ruby repository in which no
\* framework was detected.
C25_Witness ==
    /\ structure # NotAnalyzed
    /\ testCases # NotAnalyzed
    /\ testCases.status = "returned"
    /\ DOMAIN languages = {"Ruby"}
    /\ \A k \in DOMAIN frameworks : frameworks[k] = <<>>
    /\ Len(testCases.cases.unitTests) = 1

(***************************************************************************)
(* Properties of parseRepoUrl.                                              *)
(***************************************************************************)
PlainNames == { <<97, 112, 112>>, <<97, 112, 112, 46, 106, 115>>, <<108, 101, 103, 105, 116>> }

\* C27: for 'https://github.com/<owner>/<repo>.git' and '<owner>/<repo>.git'
\* parseRepoUrl returns the owner and the repository name without '.git',
\* and for the same texts without '.git' the repository name unchanged.
C27_GitSuffixRemoved ==
    ownerRepo # NotAnalyzed =>
      \A pre \in { <<>>, <<104, 116, 116, 112, 115, 58, 47, 47, 103, 105, 116, 104, 117, 98, 46, 99, 111, 109, 47>> }, owner \in Owners,
         name \in PlainNames, git \in { <<>>, <<46, 103, 105, 116>> } :
         repoUrl = pre \o owner \o <<47>> \o name \o git
           => ownerRepo = [status |-> "returned", owner |-> owner, repo |-> name]

(***************************************************************************)
(* Properties of runTests and of the run-tests command.                     *)
(***************************************************************************)
\* The results of the stages the test type selects, in the order E2E,
\* performance, API.
StagesRun ==
    (IF testType \in {"all", "e2e"} THEN <<e2eResults>> ELSE <<>>)
    \o (IF testType \in {"all", "performance"} THEN <<perfResults>> ELSE <<>>)
    \o (IF testType \in {"all", "api"} THEN <<apiResults>> ELSE <<>>)

RECURSIVE TestsOf(_)
TestsOf(stages) ==
    IF stages = <<>> THEN <<>> ELSE Head(stages).tests \o TestsOf(Tail(stages))

RECURSIVE SumOf(_, _)
SumOf(stages, field) ==
    IF stages = <<>> THEN 0
    ELSE Head(stages).summary[field] + SumOf(Tail(stages), field)

\* C28: with type 'all' the E2E, performance and API stages run one after
\* another in that order; the returned tests are the concatenation of the
\* tests of the stages that ran, in that order, and each of total, passed,
\* failed, skipped and duration is the sum of that field over those stages
\* (one stage only for 'e2e', 'performance' and 'api').
C28_StagesInOrderAndSummed ==
    /\ perfResults # NotRun /\ testType = "all" => e2eResults # NotRun
    /\ apiResults # NotRun /\ testType = "all" =>
          e2eResults # NotRun /\ perfResults # NotRun
    /\ pc = "e2e" => perfResults = NotRun /\ apiResults = NotRun
    /\ pc = "performance" => apiResults = NotRun
    /\ pc = "done" =>
          /\ \A k \in DOMAIN StagesRun : StagesRun[k] # NotRun
          /\ testType # "all" /\ testType \in {"e2e", "performance", "api"}
                => Len(StagesRun) = 1
          /\ testType = "all" => Len(StagesRun) = 3
          /\ results.tests = TestsOf(StagesRun)
          /\ \A f \in {"total", "passed", "failed", "skipped", "duration"} :
                results.summary[f] = SumOf(StagesRun, f)

\* C28 witness: a run of type 'all' has returned; the E2E and the
\* performance stage each brought a test, ahead of the three API tests.
C28_Witness ==
    /\ pc = "done"
    /\ testType = "all"
    /\ Len(e2eResults.tests) = 1
    /\ Len(perfResults.tests) = 1
    /\ e2eResults.tests[1] # perfResults.tests[1]
    /\ Len(results.tests) = 5
    /\ results.tests[1] = e2eResults.tests[1]
    /\ results.tests[2] = perfResults.tests[1]
    /\ results.summary.total = 5

NoRunnerStage ==
    /\ pc \in {"idle", "done", "saved"}
    /\ e2eResults = NotRun
    /\ perfResults = NotRun
    /\ apiResults = NotRun
    /\ \A st \in DOMAIN exec : exec[st] = NotRun

ZeroedResults ==
    /\ results.summary =
         [total |-> 0, passed |-> 0, failed |-> 0, skipped |-> 0, duration |-> 0]
    /\ results.tests = <<>>

\* The one file of the save: a result file by its name, next to the files
\* that were there, holding the JSON text of the zeroed results.
PersistedAsResultFile ==
    /\ Len(saved) = 1
    /\ StartsWith(saved[1].name, <<116, 101, 115, 116, 45, 114, 101, 115, 117, 108, 116, 115, 45>>)
    /\ EndsWith(saved[1].name, <<46, 106, 115, 111, 110>>)
    /\ saved[1].name \in DOMAIN dir
    /\ JsonParse(dir[saved[1].name]).ok
    /\ JsonParse(dir[saved[1].name]).v = ResultsObject(results)
    /\ Get(Get(JsonParse(dir[saved[1].name]).v, Key("summary")), Key("total")) = JNum(0)
    /\ Get(JsonParse(dir[saved[1].name]).v, Key("tests")) = JArr(<<>>)

C26_OneErrorLinePerFailure ==
    cli.failed # "none" =>
      /\ cli.phase = "exited"
      /\ cli.exit # 0
      /\ cli.failure = 1

\* The lines of a log written by `who`.
LinesBy(log, who) == { k \in DOMAIN log : log[k] = who }

\* C26 amended: when the operation of a command fails, the process exits
\* with status 1 and the action of the command writes exactly one
\* error-level line for that failure, the last of the log, after the lines
\* (none, one or two) of the steps below it.
C26_OneActionLinePerFailure ==
    cli.failed # "none" =>
      /\ cli.phase = "exited"
      /\ cli.exit = 1
      /\ Cardinality(LinesBy(cli.log, "action")) = 1
      /\ cli.log[Len(cli.log)] = "action"
      /\ cli.failure \in 1..3
      /\ cli.failure <= Len(cli.log)

\* C26 witness: generate-report has failed in a renderer: the renderer, then
\* generateReports, then the action have each written an error-level line.
C26_Witness ==
    /\ cli.command = "generate-report"
    /\ cli.failed = "compute"
    /\ cli.failure = 3
    /\ cli.log = <<"step", "step", "action">>

\* File names of a sequence.
Range(files) == { files[k] : k \in DOMAIN files }

\* C30: in analyze, generate-tests, analyze-risks and run-tests the
\* persisting step starts only after the computing step has returned: when
\* the computing step fails no output file is created or modified and the
\* process exits with status 1, and on success each output file of the
\* command, and no other file, is written once.
C30_PersistOnlyAfterCompute ==
    cli.command \in {"analyze", "generate-tests", "analyze-risks", "run-tests"} =>
      /\ cli.phase = "started" => cli.written = <<>>
      /\ cli.failed = "compute" => cli.written = <<>> /\ cli.exit = 1
      /\ (cli.phase = "exited" /\ cli.exit = 0) =>
            /\ Range(cli.written) = Range(OutputFiles(cli.command))
            /\ Len(cli.written) = Cardinality(Range(cli.written))
            /\ cli.failed = "none"

\* C30 witness: generate-tests has exited with status 0 in a directory that
\* held two of its files; the seven files are written.
C30_Witness ==
    /\ cli.command = "generate-tests"
    /\ cli.phase = "exited"
    /\ cli.exit = 0
    /\ Cardinality(cli.before) = 2
    /\ Len(cli.written) = 7

====
